---- MODULE Spec2Model ----
(***************************************************************************)
(* Model of the Jigsaw native module resolver                              *)
(* (src/share/native/common/jigsaw.c, src/share/vm/classfile/jigsaw.h).    *)
(*                                                                         *)
(* C strings are sequences of character codes (ASCII), files are sequences *)
(* of bytes, a path is the string jio_snprintf composes.  The file system  *)
(* is a function from paths to file contents: Files(src), the files of the *)
(* installed libraries.  Pointers into the loaded configuration are index  *)
(* tuples tagged with the allocation they point into.                      *)
(***************************************************************************)
EXTENDS Integers, Sequences, FiniteSets, TLC

VARIABLES
    src,      \* the installed module libraries, as the structures their files encode
    zips,     \* class containers: path -> the entries of the container, each with its size
    config,   \* static jconfig* config (jigsaw.c:143): the struct it points to, NoConfig for NULL
    nalloc,   \* number of jconfig structs allocated so far (pointer identity)
    ret,      \* outputs of the last call: operation, arguments, return code, out-parameters
    pc,       \* "run", or how the process ended ("hung", "crashed")
    calls     \* the find_class_entry calls of concurrent threads: where each of them is

vars == <<src, zips, config, nalloc, ret, pc, calls>>

-----------------------------------------------------------------------------
(* Program constants *)

\* 0xcafe00fa and 0xcafebabe.  An unsigned int is held as the 32-bit signed
\* integer with the same bits.
MAGIC == -889323270
MAJOR_VERSION == 0
MINOR_VERSION == 1
LIBRARY_HEADER == 0
LIBRARY_MODULE_INDEX == 1
LIBRARY_MODULE_CONFIG == 2
LIBRARY_MODULE_IDS == 8
MODULE_INFO_MAGIC == -889275714

JIGSAW_ERROR_INVALID_MODULE_LIBRARY == 101
JIGSAW_ERROR_BAD_FILE_HEADER == 102
JIGSAW_ERROR_BAD_CONFIG == 103
JIGSAW_ERROR_OPEN_CONFIG == 104
JIGSAW_ERROR_INVALID_MODULE == 107
JIGSAW_ERROR_INVALID_CONTEXT == 108
JIGSAW_ERROR_MODULE_LIBRARY_NOT_FOUND == 109
JIGSAW_ERROR_CONTEXTS_NOT_LOADED == 110
JIGSAW_ERROR_MODULE_NOT_FOUND == 111
JIGSAW_ERROR_BASE_MODULE_NOT_FOUND == 112
JIGSAW_ERROR_CLASS_NOT_FOUND == 113
JIGSAW_ERROR_READ_CLASS_ENTRY == 114
JIGSAW_ERROR_INVALID_MODULE_IDS == 116
JIGSAW_ERROR_BUFFER_TOO_SHORT == 202

\* '@', the delimiter of strtok and parse_module_id; '/', the path separator
AT == 64
FILE_SEPARATOR == 47

separator == <<FILE_SEPARATOR>>

\* "jdk.base", "jdk.classpath", "%jigsaw-library", "%mids", "config", "classes"
JDK_BASE == <<106, 100, 107, 46, 98, 97, 115, 101>>
JDK_CLASSPATH == <<106, 100, 107, 46, 99, 108, 97, 115, 115, 112, 97, 116, 104>>
JIGSAW_LIBRARY == <<37, 106, 105, 103, 115, 97, 119, 45, 108, 105, 98, 114, 97, 114, 121>>
JIGSAW_MIDS == <<37, 109, 105, 100, 115>>
CONFIG == <<99, 111, 110, 102, 105, 103>>
CLASSES == <<99, 108, 97, 115, 115, 101, 115>>

\* The null pointer, as a string and as a handle, and the content of memory
\* that malloc returned and nothing has written yet.
NULL == <<-1>>
NULLH == <<0, 0>>
NULLM == <<0, 0, 0>>
UNSET == <<-2>>
UNSETI == -2

\* JVM_Open of a path with no file
NoFile == <<-1>>

-----------------------------------------------------------------------------
(* Low-level readers.  A position is an index into the file, from 1; the   *)
(* position 0 says that an earlier read was short (JVM_Read returned fewer *)
(* bytes than asked, where the code asserts len == size).                  *)

Min(a, b) == IF a < b THEN a ELSE b

\* A local variable: v is computed once, then F runs with its value
Let(v, F(_)) == CHOOSE y \in {F(x) : x \in {v}} : TRUE

\* value << 8 on 32 bits
ShiftLeft8(value) ==
    LET low == value % 16777216
    IN  (IF low >= 8388608 THEN low - 16777216 ELSE low) * 256

\* A byte of the buffer that a short read left unwritten reads as 0 here,
\* one of the values it can have; the position 0 records that the read was
\* short.
RECURSIVE convertToInt(_, _)
convertToInt(buf, count) ==
    IF count = 0 THEN 0
    ELSE ShiftLeft8(convertToInt(buf, count - 1))
           + (IF count <= Len(buf) THEN buf[count] ELSE 0)

JVM_Read(f, pos, count) ==
    IF pos = 0 THEN <<>> ELSE SubSeq(f, pos, Min(pos + count - 1, Len(f)))

\* The position after reading count bytes at pos, 0 after a short read
Advance(f, pos, count) ==
    IF pos = 0 \/ pos + count - 1 > Len(f) THEN 0 ELSE pos + count

readByte(f, pos) == convertToInt(JVM_Read(f, pos, 1), 1)

readShort(f, pos) == convertToInt(JVM_Read(f, pos, 2), 2)

readInt(f, pos) == convertToInt(JVM_Read(f, pos, 4), 4)

readUTF8(f, pos) ==
    LET size == readShort(f, pos)
        at   == Advance(f, pos, 2)
    IN  [str |-> JVM_Read(f, at, size), next |-> Advance(f, at, size)]

checkFileHeader(f, pos, count, expected) ==
    LET value == IF count = 2 THEN readShort(f, pos) ELSE readInt(f, pos)
    IN  IF value # expected THEN JIGSAW_ERROR_BAD_FILE_HEADER ELSE 0

\* The four header checks every file starts with: 0 when all pass, else the
\* number (1..4) of the first check that fails
HeaderCheckFailing(f, kind) ==
    IF checkFileHeader(f, 1, 4, MAGIC) # 0 THEN 1
    ELSE IF checkFileHeader(f, Advance(f, 1, 4), 2, kind) # 0 THEN 2
    ELSE IF checkFileHeader(f, Advance(f, 1, 6), 2, MAJOR_VERSION) # 0 THEN 3
    ELSE IF checkFileHeader(f, Advance(f, 1, 8), 2, MINOR_VERSION) # 0 THEN 4
    ELSE 0

\* for (n=0; n < k; n++) { s = readUTF8(fd); free(s); }
RECURSIVE skipUTF8s(_, _, _)
skipUTF8s(f, pos, k) ==
    IF k <= 0 \/ pos = 0 THEN pos
    ELSE skipUTF8s(f, readUTF8(f, pos).next, k - 1)

\* for (i=0; i < k; i++) { readInt(fd); ... } with width bytes read per round
RECURSIVE skipInts(_, _, _, _)
skipInts(f, pos, k, width) ==
    IF k <= 0 \/ pos = 0 THEN pos
    ELSE skipInts(f, Advance(f, pos, width), k - 1, width)

-----------------------------------------------------------------------------
(* strtok(s, "@"): a call skips the delimiters at its start position and   *)
(* returns the token up to the next delimiter (NULL when none is left),    *)
(* and saves the position after that delimiter for the next call.          *)

RECURSIVE SkipDelims(_, _)
SkipDelims(s, i) ==
    IF i <= Len(s) /\ s[i] = AT THEN SkipDelims(s, i + 1) ELSE i

RECURSIVE TokenEnd(_, _)
TokenEnd(s, i) ==
    IF i <= Len(s) /\ s[i] # AT THEN TokenEnd(s, i + 1) ELSE i

strtok(s, from) ==
    LET b == SkipDelims(s, from)
        e == TokenEnd(s, b)
    IN  IF b > Len(s) THEN [tok |-> NULL, save |-> Len(s) + 1]
        ELSE [tok |-> SubSeq(s, b, e - 1),
              save |-> IF e > Len(s) THEN e ELSE e + 1]

\* parse_module_id: the name is what precedes the first '@', the version
\* everything after it (empty, never NULL, when there is no '@')
parse_module_id(mid) ==
    LET e == TokenEnd(mid, 1)
    IN  [name |-> SubSeq(mid, 1, e - 1), version |-> SubSeq(mid, e + 1, Len(mid))]

-----------------------------------------------------------------------------
(* load_config: the reader of the binary configuration                     *)

\* ReadModule without the loop over the views
ReadModule_ViewsNotSkipped(f, pos, cx) ==
    Let(readUTF8(f, pos), LAMBDA mid :
    Let(readUTF8(f, mid.next), LAMBDA libpath :
    Let(strtok(mid.str, 1), LAMBDA first :
        [m    |-> [context        |-> cx,
                   libpath        |-> libpath.str,
                   module_name    |-> first.tok,
                   module_version |-> strtok(mid.str, first.save).tok,
                   source         |-> UNSET,
                   zfile          |-> 0,
                   nopen          |-> 0],
         next |-> Advance(f, libpath.next, 4)])))

\* One module record: module id, library path, view count and the views
ReadModule(f, pos, cx) ==
    Let(readUTF8(f, pos), LAMBDA mid :
    Let(readUTF8(f, mid.next), LAMBDA libpath :
    Let(readInt(f, libpath.next), LAMBDA views :
    Let(strtok(mid.str, 1), LAMBDA first :
        [m    |-> [context        |-> cx,
                   libpath        |-> libpath.str,
                   module_name    |-> first.tok,
                   module_version |-> strtok(mid.str, first.save).tok,
                   source         |-> UNSET,
                   zfile          |-> 0,
                   nopen          |-> 0],
         next |-> skipUTF8s(f, Advance(f, libpath.next, 4), views)]))))

RECURSIVE ReadModules(_, _, _, _)
ReadModules(f, pos, cx, k) ==
    IF k <= 0 THEN [mods |-> <<>>, next |-> pos]
    ELSE Let(ReadModule(f, pos, cx), LAMBDA one :
         Let(ReadModules(f, one.next, cx, k - 1), LAMBDA rest :
             [mods |-> <<one.m>> \o rest.mods, next |-> rest.next]))

\* local class map entries: package index, class name, module index
RECURSIVE skipClasses(_, _, _)
skipClasses(f, pos, k) ==
    IF k <= 0 \/ pos = 0 THEN pos
    ELSE skipClasses(f, Advance(f, readUTF8(f, Advance(f, pos, 4)).next, 4), k - 1)

\* services: name, implementation count, implementation class names
RECURSIVE skipServices(_, _, _)
skipServices(f, pos, k) ==
    IF k <= 0 \/ pos = 0 THEN pos
    ELSE Let(readUTF8(f, pos).next, LAMBDA p :
             skipServices(f, skipUTF8s(f, Advance(f, p, 4), readInt(f, p)), k - 1))

\* The second loop over the contexts (jigsaw.c:398-460), for context n
ReadContextBody(f, pos, n, name) ==
    Let(readInt(f, pos), LAMBDA nModules :
    Let(ReadModules(f, Advance(f, pos, 4), n, nModules), LAMBDA ms :
    Let(skipClasses(f, Advance(f, ms.next, 4), readInt(f, ms.next)), LAMBDA p1 :
    Let(skipInts(f, Advance(f, p1, 4), readInt(f, p1), 8), LAMBDA p2 :
    Let(skipInts(f, Advance(f, p2, 4), readInt(f, p2), 4), LAMBDA p3 :
        [cx   |-> [bootstrap |-> FALSE, name |-> name,
                   mcount |-> nModules, modules |-> ms.mods],
         next |-> skipServices(f, Advance(f, p3, 4), readInt(f, p3))])))))

\* The first loop over the contexts (jigsaw.c:386-389): the names
RECURSIVE ReadNames(_, _, _)
ReadNames(f, pos, k) ==
    IF k <= 0 THEN [names |-> <<>>, next |-> pos]
    ELSE Let(readUTF8(f, pos), LAMBDA one :
         Let(ReadNames(f, one.next, k - 1), LAMBDA rest :
             [names |-> <<one.str>> \o rest.names, next |-> rest.next]))

RECURSIVE ReadContexts(_, _, _, _)
ReadContexts(f, pos, names, n) ==
    IF n > Len(names) THEN [cxs |-> <<>>, next |-> pos]
    ELSE Let(ReadContextBody(f, pos, n, names[n]), LAMBDA one :
         Let(ReadContexts(f, one.next, names, n + 1), LAMBDA rest :
             [cxs |-> <<one.cx>> \o rest.cxs, next |-> rest.next]))

\* load_config returning before it wrote cxcount and contexts
LoadFailed(rc) ==
    [rc |-> rc, cxcount |-> UNSETI, contexts |-> UNSET, short |-> FALSE]

\* rc is the return code; cxcount and contexts are what the call stored in
\* the jconfig; short says that some read hit the end of the file.
load_config(f) ==
    IF f = NoFile THEN LoadFailed(JIGSAW_ERROR_OPEN_CONFIG)
    ELSE IF HeaderCheckFailing(f, LIBRARY_MODULE_CONFIG) # 0
         THEN LoadFailed(JIGSAW_ERROR_BAD_CONFIG)
    ELSE Let(Advance(f, 1, 10), LAMBDA p0 :
         Let(skipUTF8s(f, Advance(f, p0, 4), readInt(f, p0)), LAMBDA p1 :
         Let(readInt(f, p1), LAMBDA nContexts :
         Let(ReadNames(f, Advance(f, p1, 4), nContexts), LAMBDA names :
         Let(skipUTF8s(f, Advance(f, names.next, 4), readInt(f, names.next)), LAMBDA p2 :
         Let(ReadContexts(f, p2, names.names, 1), LAMBDA cxs :
             [rc |-> 0, cxcount |-> nContexts, contexts |-> cxs.cxs,
              short |-> cxs.next = 0]))))))

-----------------------------------------------------------------------------
(* Writers of the files the code reads, in the layout the readers expect   *)
(* (the layout comment at jigsaw.c:359-375, §4.1 and §4.2 of the           *)
(* specification).  They produce the inputs; none of them is code of       *)
(* jigsaw.c.                                                               *)

u2(n) == <<(n \div 256) % 256, n % 256>>

u4(n) == <<(n \div 16777216) % 256, (n \div 65536) % 256, (n \div 256) % 256, n % 256>>

utf8(s) == u2(Len(s)) \o s

RECURSIVE Flatten(_)
Flatten(ss) == IF ss = <<>> THEN <<>> ELSE Head(ss) \o Flatten(Tail(ss))

Repeat(x, k) == [i \in 1..k |-> x]

FileHeader(kind) == u4(MAGIC) \o u2(kind) \o u2(MAJOR_VERSION) \o u2(MINOR_VERSION)

\* A version that a module id lacks (an alias)
NoVersion == NULL

\* ModuleId.toString(): name, or name@version
ModuleIdString(name, version) ==
    IF version = NoVersion THEN name ELSE name \o <<AT>> \o version

\* a string that is read and dropped: "x"
Filler == <<120>>

EncodeModule(m, nviews) ==
    utf8(ModuleIdString(m.name, m.version)) \o utf8(m.libpath)
      \o u4(nviews) \o Flatten(Repeat(utf8(Filler), nviews))

\* c.contexts: the contexts, each a name and its modules; c.d1: how many
\* roots, packages and views per module; c.d2: how many class-map entries,
\* remote packages, suppliers, services and implementations per service
EncodeContextBody(cx, d1, d2) ==
    u4(Len(cx.modules))
      \o Flatten([i \in 1..Len(cx.modules) |-> EncodeModule(cx.modules[i], d1)])
      \o u4(d2) \o Flatten(Repeat(u4(0) \o utf8(Filler) \o u4(0), d2))
      \o u4(d2) \o Flatten(Repeat(u4(0) \o u4(0), d2))
      \o u4(d2) \o Flatten(Repeat(u4(0), d2))
      \o u4(d2) \o Flatten(Repeat(utf8(Filler) \o u4(d2)
                                    \o Flatten(Repeat(utf8(Filler), d2)), d2))

EncodeConfig(c) ==
    FileHeader(LIBRARY_MODULE_CONFIG)
      \o u4(c.d1) \o Flatten(Repeat(utf8(Filler), c.d1))
      \o u4(Len(c.contexts))
      \o Flatten([i \in 1..Len(c.contexts) |-> utf8(c.contexts[i].name)])
      \o u4(c.d1) \o Flatten(Repeat(utf8(Filler), c.d1))
      \o Flatten([i \in 1..Len(c.contexts) |->
                    EncodeContextBody(c.contexts[i], c.d1, c.d2)])

\* %jigsaw-library: header, deflated flag, has-parent flag, parent path
EncodeLibraryHeader(parent) ==
    FileHeader(LIBRARY_HEADER) \o u2(0)
      \o (IF parent = NULL THEN <<0>> ELSE <<1>> \o utf8(parent))

\* %mids: header, entry count, (module id, providing module id) pairs
EncodeModuleIds(dict) ==
    FileHeader(LIBRARY_MODULE_IDS) \o u4(Len(dict))
      \o Flatten([i \in 1..Len(dict) |-> utf8(dict[i][1]) \o utf8(dict[i][2])])

-----------------------------------------------------------------------------
(* The module library chain and the module-id index                        *)

\* JVM_Open(path, O_RDONLY): the file's bytes, NoFile for fd == -1
JVM_Open(files, path) == IF path \in DOMAIN files THEN files[path] ELSE NoFile

\* jio_snprintf(path, sizeof(path), "%s%s%s", a, separator, b)
PathJoin(a, b) == a \o separator \o b

\* The dictionary loop of find_declaring_module_dir (jigsaw.c:535-541)
RECURSIVE ReadDictionary(_, _, _)
ReadDictionary(f, pos, k) ==
    IF k <= 0 \/ pos = 0 THEN <<>>
    ELSE Let(readUTF8(f, pos), LAMBDA mid :
         Let(readUTF8(f, mid.next), LAMBDA pid :
             <<[mid |-> mid.str, providingModuleId |-> pid.str]>>
               \o ReadDictionary(f, pid.next, k - 1)))

\* A comparison that orders versions by their first character
version_compare_Ordered(v1, v2) ==
    IF v1 = <<>> THEN -1
    ELSE IF v2 = <<>> THEN 1
    ELSE IF v1[1] < v2[1] THEN -1
    ELSE 1

\* ## TODO: implement jigsaw version comparsion
version_compare(v1, v2) == -1

\* The selection loop (jigsaw.c:551-565): entry and module_version after
\* the entries n..nEntries were looked at; entry 0 is NULL
RECURSIVE SelectEntry(_, _, _, _, _)
SelectEntry(dictionary, name, n, entry, module_version) ==
    IF n > Len(dictionary) THEN entry
    ELSE Let(parse_module_id(dictionary[n].mid), LAMBDA p :
             IF p.name = name /\ version_compare(module_version, p.version) < 0
             THEN SelectEntry(dictionary, name, n + 1, n, p.version)
             ELSE SelectEntry(dictionary, name, n + 1, entry, module_version))

\* The inner for loop of the alias chase (jigsaw.c:572-578): the first entry
\* whose id is the providing id, the entry itself when there is none
RECURSIVE ChaseStep(_, _, _)
ChaseStep(dictionary, entry, n) ==
    IF n > Len(dictionary) THEN entry
    ELSE IF dictionary[n].mid = dictionary[entry].providingModuleId THEN n
    ELSE ChaseStep(dictionary, entry, n + 1)

\* An alias chase that follows one alias only
AliasChase_OneStep(dictionary, entry, rounds) ==
    IF dictionary[entry].mid = dictionary[entry].providingModuleId THEN entry
    ELSE ChaseStep(dictionary, entry, 1)

\* The while loop of the alias chase (jigsaw.c:571-579).  The loop has no
\* exit but the terminal entry: when it has run more rounds than there are
\* entries it is in a cycle and runs forever, which 0 stands for.
RECURSIVE AliasChase(_, _, _)
AliasChase(dictionary, entry, rounds) ==
    IF dictionary[entry].mid = dictionary[entry].providingModuleId THEN entry
    ELSE IF rounds > Len(dictionary) THEN 0
    ELSE AliasChase(dictionary, ChaseStep(dictionary, entry, 1), rounds + 1)

\* What a call of find_declaring_module_dir on the library libpath does to
\* the resources it takes, in the order it happens:
\*   <<"open", libpath, 0>>    the descriptor of <libpath>/%mids is opened
\*   <<"close", libpath, 0>>   it is closed
\*   <<"malloc", libpath, k>>  the dictionary array of k entries is allocated
\*                             and readUTF8 allocates its 2k strings
\*   <<"free", libpath, k>>    the array and its strings are freed
IndexEvent(kind, libpath, k) == <<kind, libpath, k>>

DirResult(rc, dir, hung, events) ==
    [rc |-> rc, module_dir |-> dir, hung |-> hung, events |-> events]

FindConfigResult(found, config_path, path, hung, events) ==
    [found |-> found, config |-> config_path, path |-> path, hung |-> hung,
     events |-> events]

\* The lookup in the dictionary once it is read (jigsaw.c:543-583)
LookupDirectory(dictionary, libpath, midq) ==
    Let(SelectEntry(dictionary, parse_module_id(midq).name, 1, 0, <<>>), LAMBDA entry :
        IF entry = 0
        THEN DirResult(JIGSAW_ERROR_MODULE_NOT_FOUND, UNSET, FALSE,
                       <<IndexEvent("close", libpath, 0)>>)
        ELSE Let(AliasChase(dictionary, entry, 1), LAMBDA terminal :
                 IF terminal = 0 THEN DirResult(0, UNSET, TRUE, <<>>)
                 ELSE Let(parse_module_id(dictionary[terminal].mid), LAMBDA id :
                          DirResult(0, PathJoin(PathJoin(libpath, id.name), id.version),
                                    FALSE, <<IndexEvent("close", libpath, 0)>>))))

\* The dictionary loop (jigsaw.c:533-541) and the lookup after it
ReadAndLookup(f, libpath, midq) ==
    Let(readInt(f, Advance(f, 1, 10)), LAMBDA nEntries :
    Let(LookupDirectory(ReadDictionary(f, Advance(f, 1, 14), nEntries),
                        libpath, midq), LAMBDA r :
        [r EXCEPT !.events = <<IndexEvent("open", libpath, 0),
                               IndexEvent("malloc", libpath, nEntries)>> \o @]))

find_declaring_module_dir(files, libpath, midq) ==
    IF libpath = NULL
    THEN DirResult(JIGSAW_ERROR_INVALID_MODULE_LIBRARY, UNSET, FALSE, <<>>)
    ELSE Let(JVM_Open(files, PathJoin(libpath, JIGSAW_MIDS)), LAMBDA f :
             IF f = NoFile
             THEN DirResult(JIGSAW_ERROR_INVALID_MODULE_IDS, UNSET, FALSE, <<>>)
             ELSE IF HeaderCheckFailing(f, LIBRARY_MODULE_IDS) # 0
             THEN DirResult(JIGSAW_ERROR_INVALID_MODULE_IDS, UNSET, FALSE,
                            <<IndexEvent("open", libpath, 0),
                              IndexEvent("close", libpath, 0)>>)
             ELSE ReadAndLookup(f, libpath, midq))

\* A find_config that looks in the library itself and in no parent
find_config_SelfOnly(files, mlib, n, midq) ==
    Let(IF n > Len(mlib) THEN DirResult(JIGSAW_ERROR_MODULE_NOT_FOUND, UNSET, FALSE, <<>>)
        ELSE find_declaring_module_dir(files, mlib[n], midq), LAMBDA r :
        IF r.hung
        THEN FindConfigResult(FALSE, UNSET, UNSET, TRUE, r.events)
        ELSE IF r.rc = 0
        THEN FindConfigResult(TRUE, PathJoin(r.module_dir, CONFIG), mlib[n], FALSE,
                              r.events)
        ELSE FindConfigResult(FALSE, UNSET, UNSET, FALSE, r.events))

\* find_config over the chain from library n on (self first, then the
\* parents): found says whether a jconfig was malloc'ed (NULL otherwise),
\* config and path are the two fields it sets; hung when a lookup on the
\* way never returns
RECURSIVE find_config(_, _, _, _)
find_config(files, mlib, n, midq) ==
    IF n > Len(mlib)
    THEN FindConfigResult(FALSE, UNSET, UNSET, FALSE, <<>>)
    ELSE Let(find_declaring_module_dir(files, mlib[n], midq), LAMBDA r :
             IF r.hung
             THEN FindConfigResult(FALSE, UNSET, UNSET, TRUE, r.events)
             ELSE IF r.rc = 0
             THEN FindConfigResult(TRUE, PathJoin(r.module_dir, CONFIG), mlib[n],
                                   FALSE, r.events)
             ELSE Let(find_config(files, mlib, n + 1, midq), LAMBDA rest :
                      [rest EXCEPT !.events = r.events \o @]))

\* open_module_library: rc, and on success the chain as the sequence of
\* library paths, the library itself first, then parent, grandparent, ...
\* depth counts the nested calls: a chain of parents longer than the number
\* of files there are is a cycle of parents, an endless recursion.
\* What the library nodes (struct library) go through, in the order it
\* happens; a node is named by the depth of the open_module_library call
\* that allocated it and by 0 for the malloc of line 744, 1 for that of
\* line 751:
\*   <<"malloc", d, k>>  the node is allocated, its fields not written
\*   <<"use", d, k>>     its field parent is read though nothing wrote it
\*   <<"free", d, k>>    the node is freed
\* <<"use", 0, 0>> is the read of the variable mlib of JDK_LoadContexts
\* though nothing wrote it.
NodeEvent(kind, d, k) == <<kind, d, k>>

OpenResult(rc, mlib, hung, events) ==
    [rc |-> rc, mlib |-> mlib, hung |-> hung, events |-> events]

\* free_module_library(parent) in the call at the given depth after the
\* nested call failed: parent still is the node of line 744, which the
\* nested call did not write; its field parent is read, then it is freed
free_module_library(depth) ==
    <<NodeEvent("use", depth, 0), NodeEvent("free", depth, 0)>>

RECURSIVE open_module_library(_, _, _)
open_module_library(files, libpath, depth) ==
    Let(JVM_Open(files, PathJoin(libpath, JIGSAW_LIBRARY)), LAMBDA f :
        IF depth > Cardinality(DOMAIN files)
        THEN OpenResult(0, <<>>, TRUE, <<>>)
        ELSE IF f = NoFile
        THEN OpenResult(JIGSAW_ERROR_MODULE_LIBRARY_NOT_FOUND, <<>>, FALSE, <<>>)
        ELSE IF HeaderCheckFailing(f, LIBRARY_HEADER) # 0
        THEN OpenResult(JIGSAW_ERROR_INVALID_MODULE_LIBRARY, <<>>, FALSE, <<>>)
        ELSE IF readByte(f, Advance(f, 1, 12)) # 1
        THEN OpenResult(0, <<libpath>>, FALSE, <<NodeEvent("malloc", depth, 1)>>)
        ELSE Let(open_module_library(files, readUTF8(f, Advance(f, 1, 13)).str,
                                     depth + 1), LAMBDA parent :
                 IF parent.hung THEN parent
                 ELSE IF parent.rc # 0
                 THEN \* free_module_library(parent) on the node of line 744
                      OpenResult(parent.rc, <<>>, FALSE,
                                 <<NodeEvent("malloc", depth, 0)>> \o parent.events
                                   \o free_module_library(depth))
                 ELSE OpenResult(0, <<libpath>> \o parent.mlib, FALSE,
                                 <<NodeEvent("malloc", depth, 0)>> \o parent.events
                                   \o <<NodeEvent("malloc", depth, 1)>>)))

-----------------------------------------------------------------------------
(* The installed libraries and their files                                 *)
(*                                                                         *)
(* src.libs is a sequence of libraries, each with its path, the path of    *)
(* its parent (NULL for none), its module-id dictionary and its modules,   *)
(* each with name, version and configuration; src.flip changes one field   *)
(* of the header of the configuration files.                               *)

\* A header field (1 magic, 2 file kind, 3 major, 4 minor) and a value for
\* it that is not the valid one; field 0 leaves the header as it is; field 5
\* leaves the header as it is and cuts that many bytes off the end of the file
NoFlip == [field |-> 0, value |-> 0]

HeaderFlips(kind) ==
    {[field |-> 1, value |-> v] : v \in {MODULE_INFO_MAGIC, 0}}
      \cup {[field |-> 2, value |-> v] :
              v \in {LIBRARY_HEADER, LIBRARY_MODULE_INDEX, LIBRARY_MODULE_CONFIG,
                     LIBRARY_MODULE_IDS} \ {kind}}
      \cup {[field |-> 3, value |-> MAJOR_VERSION + 1]}
      \cup {[field |-> 4, value |-> v] : v \in {MINOR_VERSION - 1, MINOR_VERSION + 1}}

FlipHeader(f, flip) ==
    CASE flip.field = 0 -> f
      [] flip.field = 1 -> u4(flip.value) \o SubSeq(f, 5, Len(f))
      [] flip.field = 2 -> SubSeq(f, 1, 4) \o u2(flip.value) \o SubSeq(f, 7, Len(f))
      [] flip.field = 3 -> SubSeq(f, 1, 6) \o u2(flip.value) \o SubSeq(f, 9, Len(f))
      [] flip.field = 4 -> SubSeq(f, 1, 8) \o u2(flip.value) \o SubSeq(f, 11, Len(f))
      [] flip.field = 5 -> SubSeq(f, 1, Len(f) - flip.value)

\* The files of one library: its header and its module-id index
LibraryFiles(lib, parent, dict) ==
    (PathJoin(lib, JIGSAW_LIBRARY) :> EncodeLibraryHeader(parent))
      @@ (PathJoin(lib, JIGSAW_MIDS) :> EncodeModuleIds(dict))

ConfigPath(lib, name, version) ==
    PathJoin(PathJoin(PathJoin(lib, name), version), CONFIG)

Library(path, parent, dict, modules) ==
    [path |-> path, parent |-> parent, dict |-> dict, modules |-> modules]

Installed(name, version, cfg) == [name |-> name, version |-> version, cfg |-> cfg]

RECURSIVE ConfigFiles(_, _, _)
ConfigFiles(lib, flip, n) ==
    IF n = 0 THEN <<>>
    ELSE (ConfigPath(lib.path, lib.modules[n].name, lib.modules[n].version)
            :> FlipHeader(EncodeConfig(lib.modules[n].cfg), flip))
           @@ ConfigFiles(lib, flip, n - 1)

\* A library whose record has a field header has its %jigsaw-library file
\* missing (MissingHeader) or with one header field changed; one with a
\* field index has its %mids file so
MissingHeader == [field |-> -1, value |-> 0]

HeaderOf(l) == IF "header" \in DOMAIN l THEN l.header ELSE NoFlip

IndexOf(l) == IF "index" \in DOMAIN l THEN l.index ELSE NoFlip

LibraryFilesOf(l) ==
    (IF HeaderOf(l) = MissingHeader THEN <<>>
     ELSE PathJoin(l.path, JIGSAW_LIBRARY)
            :> FlipHeader(EncodeLibraryHeader(l.parent), HeaderOf(l)))
      @@ (IF IndexOf(l) = MissingHeader THEN <<>>
          ELSE PathJoin(l.path, JIGSAW_MIDS)
                 :> FlipHeader(EncodeModuleIds(l.dict), IndexOf(l)))

RECURSIVE FilesOf(_, _, _)
FilesOf(libs, flip, n) ==
    IF n = 0 THEN <<>>
    ELSE LibraryFilesOf(libs[n])
           @@ ConfigFiles(libs[n], flip, Len(libs[n].modules))
           @@ FilesOf(libs, flip, n - 1)

Files(w) == FilesOf(w.libs, w.flip, Len(w.libs))

-----------------------------------------------------------------------------
(* JDK_LoadContexts                                                        *)

\* The inner for loop of the base scan (jigsaw.c:821-827): the index of the
\* first module of the context named jdk.base, 0 when it has none
RECURSIVE FindBaseModule(_, _)
FindBaseModule(cx, i) ==
    IF i > cx.mcount THEN 0
    ELSE IF cx.modules[i].module_name = JDK_BASE THEN i
    ELSE FindBaseModule(cx, i + 1)

\* A base scan that keeps the last context with a module named jdk.base
FindBase_LastMatch(c, n) ==
    LET with == {k \in n..c.cxcount : FindBaseModule(c.contexts[k], 1) # 0}
    IN  IF with = {} THEN [base |-> 0, base_module |-> 0]
        ELSE LET last == CHOOSE k \in with : \A j \in with : j <= k
             IN  [base |-> last, base_module |-> FindBaseModule(c.contexts[last], 1)]

\* The while loop of the base scan (jigsaw.c:817-828): base and base_module
\* as indices, 0 for NULL
RECURSIVE FindBase(_, _)
FindBase(c, n) ==
    IF n > c.cxcount THEN [base |-> 0, base_module |-> 0]
    ELSE Let(FindBaseModule(c.contexts[n], 1), LAMBDA i :
             IF i # 0 THEN [base |-> n, base_module |-> i]
             ELSE FindBase(c, n + 1))

\* A classpath mode that asks for jdk.base before jdk.classpath
ResolveConfig_BaseFirst(files, mlib, module_query) ==
    IF module_query # NULL THEN find_config(files, mlib, 1, module_query)
    ELSE Let(find_config(files, mlib, 1, JDK_BASE), LAMBDA b :
             IF b.hung \/ b.found THEN b
             ELSE Let(find_config(files, mlib, 1, JDK_CLASSPATH), LAMBDA cp :
                      [cp EXCEPT !.events = b.events \o @]))

\* The configuration JDK_LoadContexts looks for: the query's, or that of
\* jdk.classpath and, failing that, of jdk.base
ResolveConfig(files, mlib, module_query) ==
    IF module_query # NULL THEN find_config(files, mlib, 1, module_query)
    ELSE Let(find_config(files, mlib, 1, JDK_CLASSPATH), LAMBDA cp :
             IF cp.hung \/ cp.found THEN cp
             ELSE Let(find_config(files, mlib, 1, JDK_BASE), LAMBDA b :
                      [b EXCEPT !.events = cp.events \o @]))

\* The global config when it is NULL, and a jconfig struct: id tells the
\* allocations apart (0 for none)
NoConfig ==
    [id |-> 0, config |-> UNSET, path |-> UNSET, classpath_mode |-> FALSE,
     cxcount |-> UNSETI, contexts |-> UNSET, base |-> UNSETI, base_module |-> UNSETI]

\* The last call: op, the operation; cx and q, its handle and string
\* arguments; rc, the return code (UNSETI when the call never returned);
\* context, module and len, the out-parameters; trace, the events of the
\* lookup; out, what the call wrote to the buffer or struct it was given
Ret(op, cx, q, rc, outcx, outm, trace) ==
    [op |-> op, cx |-> cx, q |-> q, rc |-> rc, context |-> outcx, module |-> outm,
     len |-> 0, trace |-> trace, out |-> UNSET]

\* The handle of context n of the jconfig allocation id: &config->contexts[n]
ContextHandle(id, n) == IF n = 0 THEN NULLH ELSE <<id, n>>

\* What one call of JDK_LoadContexts leaves behind: the global config, the
\* number of jconfig allocations, what the caller gets, and the ways the
\* process can go on
LoadResult(c, n, r, pcs) == [config |-> c, nalloc |-> n, ret |-> r, pc |-> pcs]

\* JDK_LoadContexts failing with rc
LoadFails(module_query, rc) == Ret("load", NULLH, module_query, rc, UNSET, NULLM, <<>>)

\* JDK_LoadContexts after open_module_library failed with lib (jigsaw.c:
\* 790-793): free_module_library(mlib) of an mlib that was never written
LibraryFails(module_query, lib) ==
    Ret("load", NULLH, module_query, lib.rc, UNSET, NULLM,
        Append(lib.events, NodeEvent("use", 0, 0)))

\* The base scan (jigsaw.c:817-828) that ended with b passed a module whose
\* module_name is NULL to strcmp
NullNameScanned(c, b) ==
    \E n \in 1..c.cxcount : \E i \in 1..c.contexts[n].mcount :
        /\ c.contexts[n].modules[i].module_name = NULL
        /\ \/ b.base = 0
           \/ n < b.base
           \/ n = b.base /\ i < b.base_module

\* JDK_LoadContexts from load_config on (jigsaw.c:809-834), for the jconfig
\* c1 that find_config allocated and load_config, returning ld, filled
LoadFound(c1, ld, module_query, config0, nalloc0) ==
    IF ld.rc # 0
    THEN LoadResult(c1, c1.id, LoadFails(module_query, ld.rc), {"run"})
    ELSE Let(FindBase(c1, 1), LAMBDA b :
             LoadResult([c1 EXCEPT !.base = b.base, !.base_module = b.base_module],
                        c1.id,
                        IF b.base = 0
                        THEN LoadFails(module_query, JIGSAW_ERROR_BASE_MODULE_NOT_FOUND)
                        ELSE Ret("load", NULLH, module_query, 0,
                                 ContextHandle(c1.id, b.base), NULLM, <<>>),
                        IF NullNameScanned(c1, b) THEN {"crashed"}
                        ELSE IF ld.short
                        THEN \* assert(len == size) in a reader ends the process;
                             \* compiled with NDEBUG the readers go on with
                             \* what the buffer holds
                             {"run", "crashed"}
                        ELSE {"run"}))

\* The result r of a JDK_LoadContexts whose lookups in the module-id indexes
\* did what events says
Traced(r, events) == [r EXCEPT !.ret.trace = events \o @]

\* The body of JDK_LoadContexts on the files there are, with the global
\* config and the allocation count as the call finds them
LoadContexts(files, libpath, module_query, config0, nalloc0) ==
    IF libpath = NULL
    THEN LoadResult(config0, nalloc0,
                    LoadFails(module_query, JIGSAW_ERROR_INVALID_MODULE_LIBRARY), {"run"})
    ELSE
    Let(open_module_library(files, libpath, 1), LAMBDA lib :
        IF lib.hung
        THEN LoadResult(config0, nalloc0, LoadFails(module_query, UNSETI), {"hung"})
        ELSE IF lib.rc # 0
        THEN \* the values read are whatever the memory held: NULL, and the
             \* call returns, or not, and the process reads or frees through
             \* a wild pointer
             LoadResult(config0, nalloc0, LibraryFails(module_query, lib),
                        {"run", "crashed"})
        ELSE
        Let(ResolveConfig(files, lib.mlib, module_query), LAMBDA found :
        Traced(
            IF found.hung
            THEN LoadResult(config0, nalloc0, LoadFails(module_query, UNSETI), {"hung"})
            ELSE IF ~found.found
            THEN LoadResult(NoConfig, nalloc0,
                            LoadFails(module_query, JIGSAW_ERROR_MODULE_NOT_FOUND),
                            {"run"})
            ELSE
            Let(load_config(JVM_Open(files, found.config)), LAMBDA ld :
                LoadFound([id |-> nalloc0 + 1, config |-> found.config,
                           path |-> found.path,
                           classpath_mode |-> (module_query = NULL),
                           cxcount |-> ld.cxcount, contexts |-> ld.contexts,
                           base |-> UNSETI, base_module |-> UNSETI],
                          ld, module_query, config0, nalloc0)),
            found.events)))

JDK_LoadContexts(libpath, module_query) ==
    /\ pc = "run"
    /\ \E r \in {LoadContexts(Files(src), libpath, module_query, config, nalloc)} :
           /\ config' = r.config
           /\ nalloc' = r.nalloc
           /\ ret' = r.ret
           /\ pc' \in r.pc
    /\ UNCHANGED <<calls, src, zips>>

-----------------------------------------------------------------------------
(* Class lookup: find_class_entry, find_class, JDK_FindLocalClass          *)

\* ".class"
DOT_CLASS == <<46, 99, 108, 97, 115, 115>>

\* (*ZipOpen)(path, &error_msg) succeeds when there is a container at path
ZipOpens(containers, path) == path \in DOMAIN containers

\* Events of a lookup, in the order they happen:
\*   <<"find_class", cx, 0>>  find_class is called on context cx
\*   <<"name", cx, i>>        the name of modules[i] of context cx is compared
\*   <<"entry", cx, i>>       find_class_entry is called on that module
\*   <<"return", cx, i>>      find_class returns &cx->modules[i], NULL for i = -1
\* Contexts are numbered from 1, modules by their C index, from 0.
Event(kind, cx, i) == <<kind, cx, i>>

Module(c, cx, i) == c.contexts[cx].modules[i + 1]

\* (*FindEntry)(m->zfile, name, &filesize, &nlen) on the container at source
\* (jigsaw.c:637-642)
FindEntry(c, containers, source, name) ==
    IF name \notin DOMAIN containers[source]
    THEN [c |-> c, rc |-> JIGSAW_ERROR_CLASS_NOT_FOUND, filesize |-> 0]
    ELSE [c |-> c, rc |-> 0, filesize |-> containers[source][name]]

\* A find_class_entry for which a container that does not open is an error
\* of its own
find_class_entry_OpenFailureFatal(c, containers, cx, i, name) ==
    Let(Module(c, cx, i), LAMBDA m :
        IF m.zfile # 0
        THEN FindEntry(c, containers, m.source, name)
        ELSE Let(PathJoin(PathJoin(PathJoin(IF m.libpath = <<>> THEN c.path
                                            ELSE m.libpath,
                                            m.module_name),
                                   m.module_version), CLASSES), LAMBDA path :
                 IF ZipOpens(containers, path)
                 THEN FindEntry([c EXCEPT !.contexts[cx].modules[i + 1].source = path,
                                          !.contexts[cx].modules[i + 1].zfile = m.nopen + 1,
                                          !.contexts[cx].modules[i + 1].nopen = m.nopen + 1],
                                containers, path, name)
                 ELSE [c |-> [c EXCEPT !.contexts[cx].modules[i + 1].source = path,
                                       !.contexts[cx].modules[i + 1].zfile = 0,
                                       !.contexts[cx].modules[i + 1].nopen = m.nopen + 1],
                       rc |-> JIGSAW_ERROR_READ_CLASS_ENTRY, filesize |-> 0]))

\* find_class_entry on module i of context cx of the configuration c, which
\* comes back updated, with the return code and the size FindEntry reported.
\* A jzfile* is 0 (NULL) or the number of the ZipOpen call on this module
\* that returned it; nopen counts these calls.
find_class_entry(c, containers, cx, i, name) ==
    Let(Module(c, cx, i), LAMBDA m :
        IF m.zfile # 0
        THEN FindEntry(c, containers, m.source, name)
        ELSE Let(PathJoin(PathJoin(PathJoin(IF m.libpath = <<>> THEN c.path
                                            ELSE m.libpath,
                                            m.module_name),
                                   m.module_version), CLASSES), LAMBDA path :
                 IF ZipOpens(containers, path)
                 THEN FindEntry([c EXCEPT !.contexts[cx].modules[i + 1].source = path,
                                          !.contexts[cx].modules[i + 1].zfile = m.nopen + 1,
                                          !.contexts[cx].modules[i + 1].nopen = m.nopen + 1],
                                containers, path, name)
                 ELSE [c |-> [c EXCEPT !.contexts[cx].modules[i + 1].source = path,
                                       !.contexts[cx].modules[i + 1].zfile = 0,
                                       !.contexts[cx].modules[i + 1].nopen = m.nopen + 1],
                       rc |-> JIGSAW_ERROR_CLASS_NOT_FOUND, filesize |-> 0]))

\* m == config->base_module, for m = &cx->modules[i]
IsBaseModule(c, cx, i) == cx = c.base /\ i + 1 = c.base_module

FindClassResult(c, found, m, filesize, trace, oob) ==
    [c |-> c, found |-> found, m |-> m, filesize |-> filesize,
     trace |-> trace, oob |-> oob]

\* The trace after the name of modules[m] was compared and find_class_entry
\* was called on it
Visited(trace, cx, m) == trace \o <<Event("name", cx, m), Event("entry", cx, m)>>

\* A find_class loop that gives up at the first module without the entry
find_class_loop_StopsAtAbsence(c, containers, cx, m, n, name, trace) ==
    IF ~(n < c.contexts[cx].mcount)
    THEN FindClassResult(c, FALSE, m, 0, trace, FALSE)
    ELSE Let(find_class_entry(c, containers, cx, m, name), LAMBDA r :
             FindClassResult(r.c, r.rc = 0, m, r.filesize, Visited(trace, cx, m), FALSE))

\* A find_class loop without the test for jdk.classpath
RECURSIVE find_class_loop_ClasspathNotSkipped(_, _, _, _, _, _, _)
find_class_loop_ClasspathNotSkipped(c, containers, cx, m, n, name, trace) ==
    IF ~(n < c.contexts[cx].mcount)
    THEN FindClassResult(c, FALSE, m, 0, trace, FALSE)
    ELSE Let(find_class_entry(c, containers, cx, m, name), LAMBDA r :
             IF r.rc = 0
             THEN FindClassResult(r.c, TRUE, m, r.filesize, Visited(trace, cx, m), FALSE)
             ELSE IF r.rc = JIGSAW_ERROR_CLASS_NOT_FOUND /\ (n + 1) < c.contexts[cx].mcount
             THEN Let(IF IsBaseModule(c, cx, n + 1) THEN n + 2 ELSE n + 1, LAMBDA k :
                      find_class_loop_ClasspathNotSkipped(r.c, containers, cx, k, k, name,
                                                          Visited(trace, cx, m)))
             ELSE FindClassResult(r.c, FALSE, m, 0, Visited(trace, cx, m), FALSE))

\* A find_class loop that goes on while n <= cx->mcount
RECURSIVE find_class_loop_OffByOne(_, _, _, _, _, _, _)
find_class_loop_OffByOne(c, containers, cx, m, n, name, trace) ==
    IF ~(n <= c.contexts[cx].mcount)
    THEN FindClassResult(c, FALSE, m, 0, trace, FALSE)
    ELSE IF m < 0 \/ m >= c.contexts[cx].mcount
    THEN FindClassResult(c, FALSE, m, 0, Append(trace, Event("name", cx, m)), TRUE)
    ELSE IF Module(c, cx, m).module_name = JDK_CLASSPATH
    THEN find_class_loop_OffByOne(c, containers, cx, n + 1, n + 1, name,
                                  Append(trace, Event("name", cx, m)))
    ELSE Let(find_class_entry(c, containers, cx, m, name), LAMBDA r :
             IF r.rc = 0
             THEN FindClassResult(r.c, TRUE, m, r.filesize, Visited(trace, cx, m), FALSE)
             ELSE IF r.rc = JIGSAW_ERROR_CLASS_NOT_FOUND /\ (n + 1) < c.contexts[cx].mcount
             THEN Let(IF IsBaseModule(c, cx, n + 1) THEN n + 2 ELSE n + 1, LAMBDA k :
                      find_class_loop_OffByOne(r.c, containers, cx, k, k, name,
                                               Visited(trace, cx, m)))
             ELSE FindClassResult(r.c, FALSE, m, 0, Visited(trace, cx, m), FALSE))

\* The while loop of find_class (jigsaw.c:664-683) with m = &cx->modules[m]
\* (or the base module) and n as the code has them.  oob: the loop read a
\* module entry outside the array of the context.
RECURSIVE find_class_loop(_, _, _, _, _, _, _)
find_class_loop(c, containers, cx, m, n, name, trace) ==
    IF ~(n < c.contexts[cx].mcount)
    THEN FindClassResult(c, FALSE, m, 0, trace, FALSE)
    ELSE IF m < 0 \/ m >= c.contexts[cx].mcount
    THEN FindClassResult(c, FALSE, m, 0, Append(trace, Event("name", cx, m)), TRUE)
    ELSE IF Module(c, cx, m).module_name = JDK_CLASSPATH
    THEN \* skip the classpath module
         find_class_loop(c, containers, cx, n + 1, n + 1, name,
                         Append(trace, Event("name", cx, m)))
    ELSE Let(find_class_entry(c, containers, cx, m, name), LAMBDA r :
             IF r.rc = 0
             THEN FindClassResult(r.c, TRUE, m, r.filesize, Visited(trace, cx, m), FALSE)
             ELSE IF r.rc = JIGSAW_ERROR_CLASS_NOT_FOUND /\ (n + 1) < c.contexts[cx].mcount
             THEN \* skip the base module (already visited)
                  Let(IF IsBaseModule(c, cx, n + 1) THEN n + 2 ELSE n + 1, LAMBDA k :
                      find_class_loop(r.c, containers, cx, k, k, name,
                                      Visited(trace, cx, m)))
             ELSE FindClassResult(r.c, FALSE, m, 0, Visited(trace, cx, m), FALSE))

\* find_class(cx, entry_name, filesize) for a context cx of the loaded
\* configuration; the last event is what it returns, -1 for NULL
find_class(c, containers, cx, name, trace) ==
    Let(find_class_loop(c, containers, cx,
                        IF cx = c.base THEN c.base_module - 1 ELSE 0,
                        IF cx = c.base THEN -1 ELSE 0,
                        name, Append(trace, Event("find_class", cx, 0))), LAMBDA r :
        [r EXCEPT !.trace = Append(r.trace,
                                   Event("return", cx, IF r.found THEN r.m ELSE -1))])

\* A loop over all contexts that does not look at the bootstrap flag
RECURSIVE SearchAllContexts_AnyContext(_, _, _, _, _)
SearchAllContexts_AnyContext(c, containers, n, name, trace) ==
    IF n > c.cxcount THEN FindClassResult(c, FALSE, 0, 0, trace, FALSE)
    ELSE IF n = c.base
    THEN SearchAllContexts_AnyContext(c, containers, n + 1, name, trace)
    ELSE Let(find_class(c, containers, n, name, trace), LAMBDA r :
             IF r.found \/ r.oob THEN [r EXCEPT !.m = <<n, r.m>>]
             ELSE SearchAllContexts_AnyContext(r.c, containers, n + 1, name, r.trace))

\* The for loop of the classpath mode (jigsaw.c:878-885) from context n on
RECURSIVE SearchAllContexts(_, _, _, _, _)
SearchAllContexts(c, containers, n, name, trace) ==
    IF n > c.cxcount THEN FindClassResult(c, FALSE, 0, 0, trace, FALSE)
    ELSE IF n = c.base \/ ~c.contexts[n].bootstrap
    THEN SearchAllContexts(c, containers, n + 1, name, trace)
    ELSE Let(find_class(c, containers, n, name, trace), LAMBDA r :
             IF r.found \/ r.oob THEN [r EXCEPT !.m = <<n, r.m>>]
             ELSE SearchAllContexts(r.c, containers, n + 1, name, r.trace))

\* The handle of module i (C index) of context cx: &cx->modules[i]
ModuleHandle(id, cx, i) == <<id, cx, i>>

\* What one call of JDK_FindLocalClass leaves behind
FindResult(c, r, next) == [config |-> c, ret |-> r, pc |-> next]

\* JDK_FindLocalClass failing with rc
FindFails(context, classname, rc, trace) ==
    Ret("find", context, classname, rc, UNSET, NULLM, trace)

\* The end of JDK_FindLocalClass (jigsaw.c:886-892) for the outcome r of the
\* lookups in the configuration c
FindReturns(c, context, classname, r) ==
    IF r.oob
    THEN FindResult(c, FindFails(context, classname, UNSETI, r.trace), "crashed")
    ELSE IF r.found
    THEN FindResult(r.c,
                    [Ret("find", context, classname, 0, UNSET,
                         ModuleHandle(c.id, r.m[1], r.m[2]), r.trace)
                       EXCEPT !.len = r.filesize],
                    "run")
    ELSE FindResult(r.c, FindFails(context, classname, JIGSAW_ERROR_CLASS_NOT_FOUND,
                                   r.trace), "run")

\* The lookups of JDK_FindLocalClass (jigsaw.c:869-885) with cx as the call
\* resolved it
FindIn(c, containers, cx, entry_name) ==
    Let(find_class(c, containers, cx[2], entry_name, <<>>), LAMBDA first :
        IF ~first.found /\ ~first.oob /\ c.classpath_mode
        THEN SearchAllContexts(first.c, containers, 1, entry_name, first.trace)
        ELSE [first EXCEPT !.m = <<cx[2], first.m>>])

\* A JDK_FindLocalClass that compares the place of the context in the
\* configuration, not its address
FindLocalClass_AnyAllocation(c, containers, context, classname) ==
    IF c.id = 0
    THEN FindResult(c, FindFails(context, classname,
                                 JIGSAW_ERROR_CONTEXTS_NOT_LOADED, <<>>), "run")
    ELSE Let(IF context = NULLH THEN ContextHandle(c.id, c.base) ELSE context, LAMBDA cx :
             IF cx # NULLH /\ cx[2] # c.base
             THEN FindResult(c, FindFails(context, classname,
                                          JIGSAW_ERROR_INVALID_CONTEXT, <<>>), "run")
             ELSE IF cx = NULLH
             THEN FindResult(c, FindFails(context, classname, UNSETI, <<>>), "crashed")
             ELSE FindReturns(c, context, classname,
                              FindIn(c, containers, cx, classname \o DOT_CLASS)))

\* The jconfig c is one load_config returned from before it wrote cxcount
\* and contexts (and JDK_LoadContexts before it wrote base and base_module):
\* the fields hold what malloc left there
Unloaded(c) == c.id # 0 /\ c.cxcount = UNSETI

\* How a call that reads the fields of such a jconfig can end besides the
\* way the model follows (the fields read as no context and no base)
WildRead(c) == IF Unloaded(c) THEN {"crashed"} ELSE {}

\* The body of JDK_FindLocalClass on the loaded configuration c and the
\* containers there are
FindLocalClass(c, containers, context, classname) ==
    IF c.id = 0
    THEN FindResult(c, FindFails(context, classname,
                                 JIGSAW_ERROR_CONTEXTS_NOT_LOADED, <<>>), "run")
    ELSE IF Unloaded(c)
    THEN \* config->base is what malloc left there: a handle is compared with
         \* it, and for NULL find_class is called on it
         IF context = NULLH
         THEN FindResult(c, FindFails(context, classname, UNSETI, <<>>), "crashed")
         ELSE FindResult(c, FindFails(context, classname,
                                      JIGSAW_ERROR_INVALID_CONTEXT, <<>>), "run")
    ELSE Let(IF context = NULLH THEN ContextHandle(c.id, c.base) ELSE context, LAMBDA cx :
             IF cx # NULLH /\ cx # ContextHandle(c.id, c.base)
             THEN FindResult(c, FindFails(context, classname,
                                          JIGSAW_ERROR_INVALID_CONTEXT, <<>>), "run")
             ELSE IF cx = NULLH
             THEN \* find_class(NULL, ...) reads cx->mcount
                  FindResult(c, FindFails(context, classname, UNSETI, <<>>), "crashed")
             ELSE FindReturns(c, context, classname,
                              FindIn(c, containers, cx, classname \o DOT_CLASS)))

JDK_FindLocalClass(context, classname) ==
    /\ pc = "run"
    /\ \E r \in {FindLocalClass(config, zips, context, classname)} :
           /\ config' = r.config
           /\ ret' = r.ret
           /\ pc' \in {r.pc} \cup WildRead(config)
    /\ UNCHANGED <<calls, src, zips, nalloc>>

-----------------------------------------------------------------------------
(* Module handles: checkModuleHandle, JDK_ReadLocalClass, JDK_GetModuleInfo *)

\* module->context for the module handle m: the address load_config stored
\* in the entry (jigsaw.c:411), that of context m[2] of the allocation m[1]
ModuleContext(m) == ContextHandle(m[1], m[2])

\* A check that compares the index of the context, not its address
checkModuleHandle_AnyAllocation(c, m) ==
    IF m = NULLM THEN -1
    ELSE IF m[2] \in 1..c.cxcount THEN 0
    ELSE JIGSAW_ERROR_INVALID_MODULE

\* checkModuleHandle(m) with the configuration c loaded
checkModuleHandle(c, m) ==
    IF m = NULLM THEN -1
    ELSE IF \E n \in 1..c.cxcount : ContextHandle(c.id, n) = ModuleContext(m) THEN 0
    ELSE JIGSAW_ERROR_INVALID_MODULE

\* What one call on a module handle leaves behind
HandleResult(c, r, pcs) == [config |-> c, ret |-> r, pc |-> pcs]

\* The last call was op on the handle module: ret.module is that handle
OnHandle(op, module, classname, rc) ==
    Ret(op, NULLH, classname, rc, UNSET, module, <<>>)

\* (*ReadEntry)(m->zfile, entry, buf, filename) writes the size bytes of the
\* entry to buf
ReadEntry(size) == [k \in 1..size |-> 0]

\* The body of JDK_ReadLocalClass on the loaded configuration c; ret.len is
\* the length of buf and ret.out what was written to it.  Writing more than
\* len bytes runs over the buffer.
ReadLocalClass(c, containers, module, classname, len) ==
    IF c.id = 0
    THEN HandleResult(c, OnHandle("read", module, classname,
                                  JIGSAW_ERROR_CONTEXTS_NOT_LOADED), {"run"})
    ELSE IF checkModuleHandle(c, module) # 0
    THEN HandleResult(c, OnHandle("read", module, classname,
                                  JIGSAW_ERROR_INVALID_MODULE), {"run"})
    ELSE Let(find_class_entry(c, containers, module[2], module[3],
                              classname \o DOT_CLASS), LAMBDA r :
             IF r.rc # 0
             THEN HandleResult(r.c, OnHandle("read", module, classname, r.rc), {"run"})
             ELSE HandleResult(r.c,
                               [OnHandle("read", module, classname, 0)
                                  EXCEPT !.len = len, !.out = ReadEntry(r.filesize)],
                               IF r.filesize > len THEN {"run", "crashed"}
                               ELSE {"run"}))

JDK_ReadLocalClass(module, classname, len) ==
    /\ pc = "run"
    /\ \E r \in {ReadLocalClass(config, zips, module, classname, len)} :
           /\ config' = r.config
           /\ ret' = r.ret
           /\ pc' \in r.pc \cup (IF module = NULLM THEN {} ELSE WildRead(config))
    /\ UNCHANGED <<calls, src, zips, nalloc>>

\* The jmodule struct JDK_GetModuleInfo fills
ModuleInfo(m) ==
    [module_name |-> m.module_name, module_version |-> m.module_version,
     libpath |-> m.libpath, source |-> m.source]

\* The body of JDK_GetModuleInfo: the return code and *minfo
GetModuleInfo(c, module) ==
    IF c.id = 0
    THEN [rc |-> JIGSAW_ERROR_CONTEXTS_NOT_LOADED, minfo |-> UNSET]
    ELSE IF checkModuleHandle(c, module) # 0
    THEN [rc |-> JIGSAW_ERROR_INVALID_MODULE, minfo |-> UNSET]
    ELSE [rc |-> 0, minfo |-> ModuleInfo(Module(c, module[2], module[3]))]

\* ret.out is *minfo after the call
JDK_GetModuleInfo(module) ==
    /\ pc = "run"
    /\ \E r \in {GetModuleInfo(config, module)} :
           ret' = [OnHandle("info", module, NULL, r.rc) EXCEPT !.out = r.minfo]
    /\ pc' \in {pc} \cup (IF module = NULLM THEN {} ELSE WildRead(config))
    /\ UNCHANGED <<calls, src, zips, config, nalloc>>

\* A classification that compares with the first of the names only
Bootstrap_FirstNameOnly(cx, non_bootstrap_modules) ==
    \A i \in 1..cx.mcount :
        \A j \in 1..Min(1, Len(non_bootstrap_modules)) :
            cx.modules[i].module_name # non_bootstrap_modules[j]

\* The loops of init_bootstrap_contexts over the modules of a context and
\* over the names: is no module of cx named in non_bootstrap_modules
Bootstrap(cx, non_bootstrap_modules) ==
    \A i \in 1..cx.mcount :
        \A j \in 1..Len(non_bootstrap_modules) :
            cx.modules[i].module_name # non_bootstrap_modules[j]

init_bootstrap_contexts(non_bootstrap_modules) ==
    /\ pc = "run"
    /\ IF config.id = 0
       THEN config' = config
       ELSE config' = [config EXCEPT !.contexts =
                         [n \in 1..config.cxcount |->
                            [config.contexts[n] EXCEPT !.bootstrap =
                               Bootstrap(config.contexts[n], non_bootstrap_modules)]]]
    /\ ret' = Ret("init_bootstrap", NULLH, NULL, 0, UNSET, NULLM, <<>>)
    /\ UNCHANGED <<calls, src, zips, nalloc, pc>>

-----------------------------------------------------------------------------
(* Bounds and the inputs drawn within them                                 *)

\* JDK_LoadContexts is called at most this many times in a run
MaxLoads == 1
\* configurations for the parser: contexts, modules in all, dropped entries
MaxParseContexts == 2
MaxParseModules == 3
MaxDiscard == 1

SeqsUpTo(S, n) == UNION {[1..k -> S] : k \in 0..n}

RECURSIVE Sum(_, _)
Sum(sizes, n) == IF n = 0 THEN 0 ELSE sizes[n] + Sum(sizes, n - 1)

\* the modules Sum(sizes, n-1)+1 .. Sum(sizes, n) of ms
Slice(ms, sizes, n) == SubSeq(ms, Sum(sizes, n - 1) + 1, Sum(sizes, n))

\* "/a": a library root; "/p": a library path override
LIBA == <<47, 97>>
LIBP == <<47, 112>>

\* "m1", "m2": module names; "1", "2": versions
M1 == <<109, 49>>
M2 == <<109, 50>>
V1 == <<49>>
V2 == <<50>>

\* "c1", "c2", ...: the name of the n-th context of a drawn configuration
ContextName(n) == <<99, 48 + n>>

Mod(name, version, libpath) == [name |-> name, version |-> version, libpath |-> libpath]

ParseModules == {Mod(M1, V1, <<>>), Mod(JDK_BASE, NoVersion, LIBP), Mod(M2, V2, <<>>)}

\* Every configuration of at most MaxParseContexts contexts holding at most
\* MaxParseModules modules in all: a sequence of modules cut into contexts
ParseConfigs ==
    UNION { UNION { { [d1 |-> d1, d2 |-> d2,
                       contexts |-> [n \in 1..ncx |->
                                       [name |-> ContextName(n),
                                        modules |-> Slice(ms, sizes, n)]]] :
                      d1 \in 0..MaxDiscard, d2 \in 0..MaxDiscard } :
                    sizes \in {z \in [1..ncx -> 0..Len(ms)] : Sum(z, ncx) = Len(ms)} } :
            <<ncx, ms>> \in (0..MaxParseContexts) \X SeqsUpTo(ParseModules, MaxParseModules) }

SelfEntry(name, version) ==
    <<ModuleIdString(name, version), ModuleIdString(name, version)>>

\* No thread is inside find_class_entry on its own
NoCalls == <<>>

NoRet == Ret("none", NULLH, NULL, 0, UNSET, NULLM, <<>>)

-----------------------------------------------------------------------------------------------------------------------------------------------------
(* SpecParse: one library /a that declares jdk.classpath@1, whose          *)
(* configuration file is the encoding of a drawn configuration; the        *)
(* configuration is loaded in classpath mode.                              *)
(* SpecHeader: the same, with one field of the configuration file's header *)
(* changed.                                                                *)

ParseWorld(c, flip) ==
    /\ src = [cfg |-> c, flip |-> flip, holders |-> {},
              libs |-> <<Library(LIBA, NULL, <<SelfEntry(JDK_CLASSPATH, V1)>>,
                                 <<Installed(JDK_CLASSPATH, V1, c)>>)>>]
    /\ zips = <<>>
    /\ config = NoConfig
    /\ nalloc = 0
    /\ ret = NoRet
    /\ pc = "run"
    /\ calls = NoCalls

InitParse == \E c \in ParseConfigs : ParseWorld(c, NoFlip)

InitHeader ==
    \E c \in ParseConfigs, flip \in HeaderFlips(LIBRARY_MODULE_CONFIG) : ParseWorld(c, flip)

LoadClasspath == nalloc < MaxLoads /\ JDK_LoadContexts(LIBA, NULL)

NextParse == LoadClasspath

SpecParse == InitParse /\ [][NextParse]_vars

SpecHeader == InitHeader /\ [][NextParse]_vars

\* C9: a configuration file with exactly one header field changed makes the
\* load fail with the malformed-file-header error, not with the error of a
\* malformed configuration.
C9_HeaderMismatchIsBadFileHeader ==
    (ret.op = "load" /\ src.flip.field # 0) => ret.rc = JIGSAW_ERROR_BAD_FILE_HEADER

\* What the parsed module m must be for the encoded module e of context n
SameModule(m, e, n) ==
    /\ m.module_name = e.name
    /\ m.module_version = e.version
    /\ m.libpath = e.libpath
    /\ m.context = n

SameContext(cx, e, n) ==
    /\ cx.name = e.name
    /\ cx.mcount = Len(e.modules)
    /\ Len(cx.modules) = Len(e.modules)
    /\ \A i \in 1..Len(e.modules) : SameModule(cx.modules[i], e.modules[i], n)

\* load_config returned 0 inside the last JDK_LoadContexts
LoadConfigSucceeded ==
    ret.op = "load" /\ ret.rc \in {0, JIGSAW_ERROR_BASE_MODULE_NOT_FOUND}

\* C10: for a well-formed configuration load_config succeeds and yields the
\* encoded context names in the encoded order and, in each context, the
\* encoded (name, version, library path) tuples in the encoded order, each
\* module pointing back to its own context.
C10_ParseRoundTrip ==
    /\ pc = "run"
    /\ ret.op = "load" =>
        /\ LoadConfigSucceeded
        /\ config.cxcount = Len(src.cfg.contexts)
        /\ Len(config.contexts) = Len(src.cfg.contexts)
        /\ \A n \in 1..Len(src.cfg.contexts) :
               SameContext(config.contexts[n], src.cfg.contexts[n], n)

\* A configuration with dropped entries of every kind, two contexts, two
\* modules in the second one, one of them an alias without version
C10_Witness ==
    /\ ret.op = "load"
    /\ src.cfg.d1 > 0 /\ src.cfg.d2 > 0
    /\ config.cxcount = 2
    /\ config.contexts[2].mcount = 2
    /\ config.contexts[2].modules[2].module_version = NULL
    /\ config.contexts[2].modules[1].module_version = V1

\* The encoded context n has a module named jdk.base
HasBase(e) == \E i \in 1..Len(e.modules) : e.modules[i].name = JDK_BASE

\* C1: after a load that parsed the configuration, the base context is the
\* first encoded context with a module named jdk.base, the base module the
\* first such module in it, and the handle given back is that context; with
\* no such context the load fails with the base-module-not-found error.
C1_BaseIsFirstMatch ==
    ret.op = "load" =>
        LET cxs  == src.cfg.contexts
            with == {n \in 1..Len(cxs) : HasBase(cxs[n])}
        IN  IF with = {}
            THEN ret.rc = JIGSAW_ERROR_BASE_MODULE_NOT_FOUND
            ELSE /\ ret.rc = 0
                 /\ \A n \in with : config.base <= n
                 /\ config.base \in with
                 /\ cxs[config.base].modules[config.base_module].name = JDK_BASE
                 /\ \A i \in 1..(config.base_module - 1) :
                        cxs[config.base].modules[i].name # JDK_BASE
                 /\ ret.context = ContextHandle(config.id, config.base)

\* jdk.base is the second module of the first context and is in the second
\* context too
C1_Witness ==
    /\ ret.op = "load" /\ ret.rc = 0
    /\ config.cxcount = 2
    /\ config.base = 1 /\ config.base_module = 2
    /\ config.contexts[2].mcount = 1
    /\ config.contexts[2].modules[1].module_name = JDK_BASE

-----------------------------------------------------------------------------
(* Spec: one library /a that declares jdk.classpath@1 and m1@1, both with  *)
(* the same drawn configuration; the containers of jdk.base, m1 and m2,    *)
(* of which a drawn set holds the class C.  The configuration is loaded in *)
(* classpath mode or for the query m1, the contexts are classified, and    *)
(* the class is looked up through any handle.                              *)

\* contexts of a configuration, and modules of a configuration in all
MaxContexts == 3
MaxModules == 3

ModuleNames == {JDK_BASE, JDK_CLASSPATH, M1, M2}

\* m2 is installed in the library /p, the other modules in the library of
\* the configuration
ModuleOf(name) == Mod(name, V1, IF name = M2 THEN LIBP ELSE <<>>)

InjectiveSeqs(S, n) ==
    {q \in SeqsUpTo(S, n) : \A i, j \in 1..Len(q) : i # j => q[i] # q[j]}

\* Every configuration of 1..MaxContexts contexts, none empty, over at most
\* MaxModules modules of different names
Configs ==
    UNION { { [d1 |-> 0, d2 |-> 0,
               contexts |-> [n \in 1..ncx |->
                               [name |-> ContextName(n),
                                modules |-> [i \in 1..sizes[n] |->
                                               ModuleOf(Slice(ms, sizes, n)[i])]]]] :
              sizes \in {z \in [1..ncx -> 1..Len(ms)] : Sum(z, ncx) = Len(ms)} } :
            <<ncx, ms>> \in (1..MaxContexts) \X InjectiveSeqs(ModuleNames, MaxModules) }

\* "C", the class looked up, and the size of its entry
CLASSNAME == <<67>>
ClassSize == 2

ContainerPath(m) ==
    PathJoin(PathJoin(PathJoin(IF m.libpath = <<>> THEN LIBA ELSE m.libpath, m.name),
                      m.version), CLASSES)

\* The containers of the modules in names, those in holders with the class
Containers(names, holders) ==
    [path \in {ContainerPath(ModuleOf(name)) : name \in names} |->
        IF \E name \in holders : path = ContainerPath(ModuleOf(name))
        THEN (CLASSNAME \o DOT_CLASS) :> ClassSize
        ELSE <<>>]

Init ==
    \E c \in Configs, holders \in SUBSET (ModuleNames \ {JDK_CLASSPATH}) :
        /\ src = [cfg |-> c, flip |-> NoFlip, holders |-> holders,
                  libs |-> <<Library(LIBA, NULL,
                                     <<SelfEntry(JDK_CLASSPATH, V1), SelfEntry(M1, V1)>>,
                                     <<Installed(JDK_CLASSPATH, V1, c),
                                       Installed(M1, V1, c)>>)>>]
        /\ zips = Containers(ModuleNames \ {JDK_CLASSPATH}, holders)
        /\ config = NoConfig
        /\ nalloc = 0
        /\ ret = NoRet
        /\ pc = "run"
        /\ calls = NoCalls

\* the arrays init_bootstrap_contexts is called with
NonBootstrapArgs == {<<>>, <<M1>>, <<M2>>, <<M2, M1>>}

\* the handles a caller may pass: NULL and the address of any context of any
\* configuration allocated so far
Handles == {NULLH} \cup {ContextHandle(id, n) : id \in 1..nalloc, n \in 1..MaxContexts}

Load == \E q \in {NULL, M1} : nalloc < MaxLoads /\ JDK_LoadContexts(LIBA, q)

InitBootstrap == \E names \in NonBootstrapArgs : init_bootstrap_contexts(names)

Find == \E h \in Handles : JDK_FindLocalClass(h, CLASSNAME)

Next == Load \/ InitBootstrap \/ Find

Spec == Init /\ [][Next]_vars

\* The positions in a trace where find_class is entered, and the position
\* where the call entered at k returns
FindClassCalls(trace) == {k \in 1..Len(trace) : trace[k][1] = "find_class"}

ReturnOf(trace, k) ==
    CHOOSE j \in k..Len(trace) :
        /\ trace[j][1] = "return"
        /\ \A i \in k..(j - 1) : trace[i][1] # "return"

\* The contexts find_class was called on, in the order of the calls
RECURSIVE CalledContexts(_, _)
CalledContexts(trace, k) ==
    IF k > Len(trace) THEN <<>>
    ELSE (IF trace[k][1] = "find_class" THEN <<trace[k][2]>> ELSE <<>>)
           \o CalledContexts(trace, k + 1)

\* The container of module i (C index) of context cx holds the class
Holds(cx, i) == Module(config, cx, i).module_name \in src.holders

\* The search order of a context: the base module first when the context is
\* the base context, then the modules as declared, jdk.classpath left out
RECURSIVE DeclaredFrom(_, _)
DeclaredFrom(cx, i) ==
    IF i >= config.contexts[cx].mcount THEN <<>>
    ELSE (IF Module(config, cx, i).module_name = JDK_CLASSPATH \/ IsBaseModule(config, cx, i)
          THEN <<>> ELSE <<i>>) \o DeclaredFrom(cx, i + 1)

SearchOrder(cx) ==
    (IF cx = config.base THEN <<config.base_module - 1>> ELSE <<>>) \o DeclaredFrom(cx, 0)

\* The first module in the search order of cx that holds the class, -1 when
\* none does
FirstHolder(cx) ==
    LET order == SearchOrder(cx)
        hs    == {k \in 1..Len(order) : Holds(cx, order[k])}
    IN  IF hs = {} THEN -1
        ELSE order[CHOOSE k \in hs : \A j \in hs : k <= j]

\* C2: every find_class call of a lookup returns the first module in the
\* search order of its context whose container holds the entry, and NULL
\* only when no module in that order holds it.
C2_FirstHolderReturned ==
    ret.op = "find" =>
        \A k \in FindClassCalls(ret.trace) :
            ret.trace[ReturnOf(ret.trace, k)]
              = Event("return", ret.trace[k][2], FirstHolder(ret.trace[k][2]))

\* The base context is [jdk.base, m1, m2], the class is in m2 only
C2_Witness ==
    /\ ret.op = "find" /\ ret.rc = 0
    /\ config.base_module = 1
    /\ config.contexts[config.base].mcount = 3
    /\ Module(config, config.base, 1).module_name = M1
    /\ ret.trace = <<Event("find_class", config.base, 0),
                     Event("name", config.base, 0), Event("entry", config.base, 0),
                     Event("name", config.base, 1), Event("entry", config.base, 1),
                     Event("name", config.base, 2), Event("entry", config.base, 2),
                     Event("return", config.base, 2)>>

\* The handle names a context of the loaded configuration
LoadedHandle(h) == h # NULLH /\ h[1] = config.id /\ h[2] \in 1..config.cxcount

\* C3: a lookup through the handle of any loaded context starts with a search
\* of that context, a lookup without handle with a search of the base
\* context.
C3_LoadedHandleIsSearched ==
    (ret.op = "find" /\ config.id # 0 /\ config.base # 0) =>
        /\ LoadedHandle(ret.cx) =>
              /\ Len(ret.trace) > 0
              /\ ret.trace[1] = Event("find_class", ret.cx[2], 0)
        /\ ret.cx = NULLH =>
              /\ Len(ret.trace) > 0
              /\ ret.trace[1] = Event("find_class", config.base, 0)

\* Some module of the context other than jdk.classpath holds the class
Supplies(cx) == FirstHolder(cx) # -1

\* The contexts the fallback is to search, from context n on: those marked
\* bootstrap other than the base context, up to the first that supplies
RECURSIVE FallbackFrom(_)
FallbackFrom(n) ==
    IF n > config.cxcount THEN <<>>
    ELSE IF n = config.base \/ ~config.contexts[n].bootstrap THEN FallbackFrom(n + 1)
    ELSE IF Supplies(n) THEN <<n>>
    ELSE <<n>> \o FallbackFrom(n + 1)

\* C4: when the search of the base context finds nothing, a lookup in
\* classpath mode goes on through exactly the bootstrap contexts other than
\* the base context, in declaration order, up to the first that supplies the
\* class; a lookup in module mode searches nothing else and fails with
\* class-not-found.
C4_FallbackOrder ==
    (ret.op = "find" /\ Len(ret.trace) > 0 /\ ~Supplies(config.base)) =>
        LET called == CalledContexts(ret.trace, 1)
        IN  IF config.classpath_mode
            THEN /\ called = <<config.base>> \o FallbackFrom(1)
                 /\ ret.rc = IF Supplies(called[Len(called)]) THEN 0
                             ELSE JIGSAW_ERROR_CLASS_NOT_FOUND
                 /\ ret.rc = 0 => ret.module[2] = called[Len(called)]
            ELSE /\ called = <<config.base>>
                 /\ ret.rc = JIGSAW_ERROR_CLASS_NOT_FOUND

\* Classpath mode, three contexts: the first is not bootstrap and holds the
\* class, the second is the base context, the third supplies the class
C4_Witness ==
    /\ ret.op = "find" /\ ret.rc = 0
    /\ config.classpath_mode
    /\ config.cxcount = 3 /\ config.base = 2
    /\ ~config.contexts[1].bootstrap /\ Supplies(1)
    /\ CalledContexts(ret.trace, 1) = <<2, 3>>

\* C5: find_class_entry is never called on a module named jdk.classpath,
\* and no container is ever opened for one.
C5_ClasspathNeverConsulted ==
    config.id # 0 =>
        /\ \A cx \in 1..config.cxcount : \A i \in 0..(config.contexts[cx].mcount - 1) :
              Module(config, cx, i).module_name = JDK_CLASSPATH
                  => Module(config, cx, i).nopen = 0
        /\ ret.op = "find" =>
              \A k \in 1..Len(ret.trace) :
                  ret.trace[k][1] = "entry" =>
                      Module(config, ret.trace[k][2], ret.trace[k][3]).module_name
                          # JDK_CLASSPATH

\* jdk.classpath is the first module of the base context and the walk comes
\* to it right after the base module; the class is found past it
C5_Witness ==
    /\ ret.op = "find" /\ ret.rc = 0
    /\ Module(config, config.base, 0).module_name = JDK_CLASSPATH
    /\ Len(ret.trace) > 4
    /\ ret.trace[2] = Event("name", config.base, config.base_module - 1)
    /\ ret.trace[4] = Event("name", config.base, 0)
    /\ ret.module[3] # config.base_module - 1

\* C6: in a find_class call on the base context the base module is passed
\* to find_class_entry at most once.
C6_BaseConsultedAtMostOnce ==
    ret.op = "find" =>
        \A k \in FindClassCalls(ret.trace) :
            ret.trace[k][2] = config.base =>
                Cardinality({j \in k..ReturnOf(ret.trace, k) :
                               ret.trace[j] = Event("entry", config.base,
                                                    config.base_module - 1)}) <= 1

-----------------------------------------------------------------------------
(* SpecChain: a chain of one to MaxChain libraries /a, /b, ..., each the   *)
(* parent of the one before, each with a drawn module-id dictionary and    *)
(* with a configuration installed for every entry that provides itself;    *)
(* a configuration is loaded from /a for a drawn query.                    *)

MaxChain == 3

\* "/a", "/b", ...: the n-th library of the chain
LibPath(n) == <<47, 96 + n>>

\* "A", "B", "C": module names
ModA == <<65>>
ModB == <<66>>
ModC == <<67>>

\* A dictionary entry: the module name@version is provided by pname@pversion
DictEntry(name, version, pname, pversion) ==
    [name |-> name, version |-> version, pname |-> pname, pversion |-> pversion]

Provides(name, version) == DictEntry(name, version, name, version)

\* Dictionaries: empty; C alone; A -> B -> C -> C; the same, the terminal
\* first; two versions of C; A -> B with no entry for B
ChainDicts ==
    { <<>>,
      <<Provides(ModC, V1)>>,
      <<DictEntry(ModA, V1, ModB, V1), DictEntry(ModB, V1, ModC, V1), Provides(ModC, V1)>>,
      <<Provides(ModC, V2), DictEntry(ModB, V1, ModC, V2), DictEntry(ModA, V1, ModB, V1)>>,
      <<Provides(ModC, V1), Provides(ModC, V2)>>,
      <<DictEntry(ModA, V1, ModB, V1)>> }

\* The configuration installed for every module: one context with jdk.base
BaseConfig ==
    [d1 |-> 0, d2 |-> 0,
     contexts |-> <<[name |-> ContextName(1), modules |-> <<ModuleOf(JDK_BASE)>>]>>]

IsTerminal(e) == e.name = e.pname /\ e.version = e.pversion

\* The entries as the pairs of strings the index file holds
DictStrings(entries) ==
    [i \in 1..Len(entries) |->
       <<ModuleIdString(entries[i].name, entries[i].version),
         ModuleIdString(entries[i].pname, entries[i].pversion)>>]

\* An installed module for every entry that provides itself
RECURSIVE InstalledOf(_, _)
InstalledOf(entries, n) ==
    IF n = 0 THEN <<>>
    ELSE InstalledOf(entries, n - 1)
           \o (IF IsTerminal(entries[n])
               THEN <<Installed(entries[n].name, entries[n].version, BaseConfig)>>
               ELSE <<>>)

ChainLibrary(n, k, entries) ==
    [path |-> LibPath(n), parent |-> IF n < k THEN LibPath(n + 1) ELSE NULL,
     dict |-> DictStrings(entries), modules |-> InstalledOf(entries, Len(entries)),
     entries |-> entries]

\* The queries: "A", "C", "C@1", and classpath mode
ChainQueries ==
    { [q |-> ModA, name |-> ModA], [q |-> ModC, name |-> ModC],
      [q |-> ModuleIdString(ModC, V1), name |-> ModC] }

InitChain ==
    \E k \in 1..MaxChain : \E ds \in [1..k -> ChainDicts] :
        /\ src = [cfg |-> BaseConfig, flip |-> NoFlip, holders |-> {},
                  libs |-> [n \in 1..k |-> ChainLibrary(n, k, ds[n])]]
        /\ zips = <<>>
        /\ config = NoConfig
        /\ nalloc = 0
        /\ ret = NoRet
        /\ pc = "run"
        /\ calls = NoCalls

LoadChain ==
    \E q \in {NULL} \cup {x.q : x \in ChainQueries} :
        nalloc < MaxLoads /\ JDK_LoadContexts(LibPath(1), q)

NextChain == LoadChain

SpecChain == InitChain /\ [][NextChain]_vars

\* The module name a query asks for
QueryName(q) == (CHOOSE x \in ChainQueries : x.q = q).name

\* The libraries of the chain, in the order of the chain, whose dictionary
\* has an entry for the name
Declaring(name) ==
    {n \in 1..Len(src.libs) :
        \E i \in 1..Len(src.libs[n].entries) : src.libs[n].entries[i].name = name}

First(S) == CHOOSE n \in S : \A m \in S : n <= m

\* C7: the configuration comes from the first library of the chain, the
\* library itself before its parents, that declares the query: its path is
\* <declaring-dir>/config and its library root the path of that library;
\* when no library of the chain declares the query the load fails with
\* module-not-found and there is no configuration.
C7_FirstDeclaringLibraryWins ==
    (ret.op = "load" /\ pc = "run") =>
        IF ret.q = NULL \/ Declaring(QueryName(ret.q)) = {}
        THEN ret.rc = JIGSAW_ERROR_MODULE_NOT_FOUND /\ config.id = 0
        ELSE LET n == First(Declaring(QueryName(ret.q)))
                 d == find_declaring_module_dir(Files(src), LibPath(n), ret.q)
             IN  /\ ret.rc = 0
                 /\ config.path = LibPath(n)
                 /\ d.rc = 0
                 /\ config.config = PathJoin(d.module_dir, CONFIG)
                 /\ \A m \in 1..(n - 1) :
                        find_declaring_module_dir(Files(src), LibPath(m), ret.q).rc # 0

\* Three libraries: /a does not declare the query, /b and /c both do
C7_Witness ==
    /\ ret.op = "load" /\ ret.rc = 0
    /\ Len(src.libs) = 3
    /\ Declaring(QueryName(ret.q)) = {2, 3}
    /\ config.path = LibPath(2)

\* The entry of a dictionary the lookup starts from (the last with the
\* name), and the entry the aliases lead to from entry i: 0 when an alias
\* names no entry or more aliases were followed than there are entries
Chosen(entries, name) ==
    CHOOSE i \in 1..Len(entries) :
        /\ entries[i].name = name
        /\ \A j \in (i + 1)..Len(entries) : entries[j].name # name

RECURSIVE Resolve(_, _, _)
Resolve(entries, i, fuel) ==
    LET next == {j \in 1..Len(entries) :
                    /\ entries[j].name = entries[i].pname
                    /\ entries[j].version = entries[i].pversion}
    IN  IF IsTerminal(entries[i]) THEN i
        ELSE IF fuel = 0 \/ next = {} THEN 0
        ELSE Resolve(entries, First(next), fuel - 1)

\* C8: when the aliases lead from the chosen entry to an entry that
\* provides itself, the lookup returns and the configuration is the one
\* in <library-root>/<name>/<version> of that entry.
C8_AliasChaseReachesTerminal ==
    (ret.op = "load" /\ ret.q # NULL /\ Declaring(QueryName(ret.q)) # {}) =>
        LET lib == src.libs[First(Declaring(QueryName(ret.q)))]
            t   == Resolve(lib.entries, Chosen(lib.entries, QueryName(ret.q)),
                           Len(lib.entries))
        IN  t # 0 =>
              /\ pc = "run"
              /\ ret.rc = 0
              /\ config.config
                   = PathJoin(PathJoin(PathJoin(lib.path, lib.entries[t].name),
                                       lib.entries[t].version), CONFIG)

\* The dictionary A -> B -> C -> C of /a, asked for A
C8_Witness ==
    /\ ret.op = "load" /\ ret.rc = 0
    /\ ret.q = ModA
    /\ src.libs[1].entries
         = <<DictEntry(ModA, V1, ModB, V1), DictEntry(ModB, V1, ModC, V1),
             Provides(ModC, V1)>>
    /\ config.config = PathJoin(PathJoin(PathJoin(LIBA, ModC), V1), CONFIG)

-----------------------------------------------------------------------------
(* SpecBoot: the library of SpecParse, whose configuration may have        *)
(* contexts without modules; the configuration is loaded in classpath mode *)
(* and the contexts are classified.                                        *)

NextBoot == LoadClasspath \/ InitBootstrap

SpecBoot == InitParse /\ [][NextBoot]_vars

\* No module of the context cx has a name in names
Eligible(cx, names) ==
    {cx.modules[i].module_name : i \in 1..cx.mcount}
        \cap {names[j] : j \in 1..Len(names)} = {}

\* The configuration c with the bootstrap flags of the configuration d
WithFlagsOf(c, d) ==
    [c EXCEPT !.contexts = [n \in 1..c.cxcount |->
                              [c.contexts[n] EXCEPT !.bootstrap =
                                                       d.contexts[n].bootstrap]]]

\* What a call init_bootstrap_contexts(names) must have done
Classified(names) ==
    /\ config.id = 0 => config' = config
    /\ config.id # 0 =>
        /\ config'.cxcount = config.cxcount
        /\ \A n \in 1..config.cxcount :
               config'.contexts[n].bootstrap = Eligible(config.contexts[n], names)
        /\ WithFlagsOf(config', config) = config
    /\ UNCHANGED <<calls, src, zips, nalloc, pc>>

\* C11: a call init_bootstrap_contexts(names) marks every context of the
\* loaded configuration bootstrap-eligible if and only if none of its
\* modules has a name in names, changes nothing but these flags, and does
\* nothing when no configuration is loaded.
C11_BootstrapIffNoModuleNamed ==
    [][\A names \in NonBootstrapArgs :
           init_bootstrap_contexts(names) => Classified(names)]_vars

\* After a call with names given: a context without modules and a context
\* with none of the names are eligible, a context with one of them is not
C11_Witness ==
    /\ ret.op = "init_bootstrap"
    /\ config.id # 0
    /\ \E n \in 1..config.cxcount :
           config.contexts[n].mcount = 0 /\ config.contexts[n].bootstrap
    /\ \E n \in 1..config.cxcount :
           config.contexts[n].mcount > 0 /\ ~config.contexts[n].bootstrap

-----------------------------------------------------------------------------
(* JDK_GetSystemModuleLibraryPath                                          *)

\* "lib%smodules" with the separator filled in
LIB_MODULES == <<108, 105, 98>> \o separator \o <<109, 111, 100, 117, 108, 101, 115>>

\* jio_snprintf(libpath, len, "%s%slib%smodules", java_home, separator,
\* separator): the string fits the buffer when it leaves room for the NUL;
\* a string that does not fit is cut to len - 1 characters
GetSystemModuleLibraryPath(java_home, len) ==
    IF java_home = NULL
    THEN [rc |-> JIGSAW_ERROR_MODULE_LIBRARY_NOT_FOUND, libpath |-> UNSET]
    ELSE Let(PathJoin(java_home, LIB_MODULES), LAMBDA path :
             IF Len(path) >= len
             THEN [rc |-> JIGSAW_ERROR_BUFFER_TOO_SHORT,
                   libpath |-> SubSeq(path, 1, len - 1)]
             ELSE [rc |-> 0, libpath |-> path])

\* ret.len is the length of the buffer, ret.out the buffer after the call
JDK_GetSystemModuleLibraryPath(java_home, len) ==
    /\ pc = "run"
    /\ \E r \in {GetSystemModuleLibraryPath(java_home, len)} :
           ret' = [Ret("syslib", NULLH, java_home, r.rc, UNSET, NULLM, <<>>)
                     EXCEPT !.len = len, !.out = r.libpath]
    /\ UNCHANGED <<calls, src, zips, config, nalloc, pc>>

-----------------------------------------------------------------------------
(* SpecHome: two platform homes /h and /g, each with or without a module   *)
(* library at lib/modules that declares jdk.classpath@1.  The path of the  *)
(* system library of a home is asked for with a buffer of a drawn length,  *)
(* and the configuration is loaded from the path that came back.           *)

\* the longest buffer handed to JDK_GetSystemModuleLibraryPath
MaxBuffer == 17

\* "/h", "/g"
HOMEH == <<47, 104>>
HOMEG == <<47, 103>>

Homes == {HOMEH, HOMEG}

SystemLibrary(home) ==
    Library(PathJoin(home, LIB_MODULES), NULL, <<SelfEntry(JDK_CLASSPATH, V1)>>,
            <<Installed(JDK_CLASSPATH, V1, BaseConfig)>>)

InitHome ==
    \E libs \in {<<>>, <<SystemLibrary(HOMEH)>>, <<SystemLibrary(HOMEG)>>,
                 <<SystemLibrary(HOMEH), SystemLibrary(HOMEG)>>} :
        /\ src = [cfg |-> BaseConfig, flip |-> NoFlip, holders |-> {}, libs |-> libs]
        /\ zips = <<>>
        /\ config = NoConfig
        /\ nalloc = 0
        /\ ret = NoRet
        /\ pc = "run"
        /\ calls = NoCalls

GetSystemPath ==
    \E java_home \in Homes \cup {NULL}, len \in 1..MaxBuffer :
        JDK_GetSystemModuleLibraryPath(java_home, len)

\* the caller loads from the path it was given
LoadSystem ==
    /\ nalloc < MaxLoads
    /\ ret.op = "syslib" /\ ret.rc = 0
    /\ JDK_LoadContexts(ret.out, NULL)

NextHome == GetSystemPath \/ LoadSystem

SpecHome == InitHome /\ [][NextHome]_vars

\* There is a library header file at libpath, with a valid header
HeaderExists(libpath) ==
    /\ PathJoin(libpath, JIGSAW_LIBRARY) \in DOMAIN Files(src)
    /\ HeaderCheckFailing(Files(src)[PathJoin(libpath, JIGSAW_LIBRARY)],
                          LIBRARY_HEADER) = 0

\* C12: JDK_GetSystemModuleLibraryPath succeeds, with <java_home>/lib/modules
\* in the buffer, only when there is a library header at that path; it fails
\* when java_home is NULL, when the header is missing and when the buffer is
\* too short for the path.
C12_PathOnlyAfterHeaderValidated ==
    ret.op = "syslib" =>
        /\ ret.rc = 0 =>
            /\ ret.q # NULL
            /\ ret.out = PathJoin(ret.q, LIB_MODULES)
            /\ Len(ret.out) < ret.len
            /\ HeaderExists(ret.out)
        /\ ret.q = NULL => ret.rc # 0
        /\ (ret.q # NULL /\ Len(PathJoin(ret.q, LIB_MODULES)) >= ret.len) => ret.rc # 0
        /\ (ret.q # NULL /\ ~HeaderExists(PathJoin(ret.q, LIB_MODULES))) => ret.rc # 0

-----------------------------------------------------------------------------
(* SpecMode: a chain of one to MaxChain libraries, each declaring a drawn  *)
(* set of jdk.classpath, jdk.base and m1; a configuration is loaded from   *)
(* /a in classpath mode or for the query m1.                               *)

ModeDicts ==
    { <<>>,
      <<Provides(JDK_CLASSPATH, V1)>>,
      <<Provides(JDK_BASE, V1)>>,
      <<Provides(JDK_BASE, V1), Provides(JDK_CLASSPATH, V1)>>,
      <<Provides(M1, V1)>> }

InitMode ==
    \E k \in 1..MaxChain : \E ds \in [1..k -> ModeDicts] :
        /\ src = [cfg |-> BaseConfig, flip |-> NoFlip, holders |-> {},
                  libs |-> [n \in 1..k |-> ChainLibrary(n, k, ds[n])]]
        /\ zips = <<>>
        /\ config = NoConfig
        /\ nalloc = 0
        /\ ret = NoRet
        /\ pc = "run"
        /\ calls = NoCalls

LoadMode ==
    \E q \in {NULL, M1} : nalloc < MaxLoads /\ JDK_LoadContexts(LibPath(1), q)

NextMode == LoadMode

SpecMode == InitMode /\ [][NextMode]_vars

\* The global configuration is the one installed for name@1 in library n
ConfigOf(name, n) ==
    /\ config.id # 0
    /\ config.path = LibPath(n)
    /\ config.config = PathJoin(PathJoin(PathJoin(LibPath(n), name), V1), CONFIG)

\* C13: without a module query the configuration is that of jdk.classpath
\* from the first library of the chain declaring it and, only when no
\* library of the chain declares jdk.classpath, that of jdk.base; a loaded
\* configuration is in classpath mode if and only if there was no query.
C13_ClasspathThenBase ==
    ret.op = "load" =>
        /\ ret.q = NULL =>
             IF Declaring(JDK_CLASSPATH) # {}
             THEN ret.rc = 0 /\ ConfigOf(JDK_CLASSPATH, First(Declaring(JDK_CLASSPATH)))
             ELSE IF Declaring(JDK_BASE) # {}
             THEN ret.rc = 0 /\ ConfigOf(JDK_BASE, First(Declaring(JDK_BASE)))
             ELSE ret.rc = JIGSAW_ERROR_MODULE_NOT_FOUND /\ config.id = 0
        /\ config.id # 0 => (config.classpath_mode <=> ret.q = NULL)

\* /a declares jdk.base only and its parent /b jdk.classpath: the
\* configuration is that of jdk.classpath in /b
C13_Witness ==
    /\ ret.op = "load" /\ ret.q = NULL /\ ret.rc = 0
    /\ Declaring(JDK_BASE) = {1}
    /\ Declaring(JDK_CLASSPATH) = {2}
    /\ ConfigOf(JDK_CLASSPATH, 2)
    /\ config.classpath_mode

\* A load for the query m1 leaves a configuration that is not in classpath
\* mode
C13_QueryWitness ==
    ret.op = "load" /\ ret.q = M1 /\ ret.rc = 0 /\ ~config.classpath_mode

-----------------------------------------------------------------------------
(* SpecRead: the library of Spec with a configuration of at most two       *)
(* contexts over jdk.base, m1 and m2; a drawn set of the modules has a     *)
(* container and a drawn set of these holds the class C.  The              *)
(* configuration is loaded in classpath mode and the class is looked up    *)
(* and read through any handle a caller can hold.                          *)
(* SpecInfo: the same with a container for every module; the               *)
(* configuration is loaded at most MaxReloads times, the contexts are      *)
(* classified, the class is looked up and the modules are asked for.       *)

\* JDK_LoadContexts is called at most this many times in a run of SpecInfo
MaxReloads == 2
\* lookups are made while no container was asked to open this many times
MaxOpens == 2

ReadModuleNames == {JDK_BASE, M1, M2}

ReadConfigs ==
    {c \in Configs :
        /\ Len(c.contexts) <= 2
        /\ \A n \in 1..Len(c.contexts) : \A i \in 1..Len(c.contexts[n].modules) :
               c.contexts[n].modules[i].name \in ReadModuleNames}

ReadWorld(c, present, holders) ==
    /\ src = [cfg |-> c, flip |-> NoFlip, holders |-> holders,
              libs |-> <<Library(LIBA, NULL, <<SelfEntry(JDK_CLASSPATH, V1)>>,
                                 <<Installed(JDK_CLASSPATH, V1, c)>>)>>]
    /\ zips = Containers(present, holders)
    /\ config = NoConfig
    /\ nalloc = 0
    /\ ret = NoRet
    /\ pc = "run"
    /\ calls = NoCalls

InitRead ==
    \E c \in ReadConfigs, present \in SUBSET ReadModuleNames :
        \E holders \in SUBSET present : ReadWorld(c, present, holders)

InitInfo ==
    \E c \in ReadConfigs, holders \in SUBSET ReadModuleNames :
        ReadWorld(c, ReadModuleNames, holders)

\* the context handles a caller may hold: NULL and the address of any
\* context of the loaded configuration
ContextHandles ==
    {NULLH} \cup {ContextHandle(config.id, n) : n \in 1..Len(src.cfg.contexts)}

\* the module handles a caller may hold: NULL and the address of any module
\* entry of any configuration allocated so far (all were read from the same
\* file)
ModuleHandles ==
    {NULLM} \cup
    {h \in (1..nalloc) \X (1..Len(src.cfg.contexts)) \X (0..(MaxModules - 1)) :
        h[3] < Len(src.cfg.contexts[h[2]].modules)}

\* no container of the loaded configuration was asked to open MaxOpens times
FewOpens ==
    config.id # 0 =>
        \A n \in 1..config.cxcount : \A i \in 1..config.contexts[n].mcount :
            config.contexts[n].modules[i].nopen < MaxOpens

Reload == nalloc < MaxReloads /\ JDK_LoadContexts(LIBA, NULL)

Classify == init_bootstrap_contexts(<<>>)

FindAny == \E h \in ContextHandles : FewOpens /\ JDK_FindLocalClass(h, CLASSNAME)

ReadAny == \E m \in ModuleHandles : FewOpens /\ JDK_ReadLocalClass(m, CLASSNAME, ClassSize)

InfoAny == \E m \in ModuleHandles : JDK_GetModuleInfo(m)

NextRead == LoadClasspath \/ FindAny \/ ReadAny

SpecRead == InitRead /\ [][NextRead]_vars

NextInfo == Reload \/ Classify \/ FindAny \/ InfoAny

SpecInfo == InitInfo /\ [][NextInfo]_vars

\* C14: over any calls of JDK_FindLocalClass and JDK_ReadLocalClass the
\* container of a module is asked to open at most once, and the handle the
\* module has is the one that open returned.
C14_ContainerOpenedOnce ==
    config.id # 0 =>
        \A n \in 1..config.cxcount : \A i \in 1..config.contexts[n].mcount :
            /\ config.contexts[n].modules[i].nopen <= 1
            /\ config.contexts[n].modules[i].zfile \in {0, 1}

\* The module entry the handle h points to, as the configuration file has it
Encoded(h) == src.cfg.contexts[h[2]].modules[h[3] + 1]

\* <effective-library-path>/<name>/<version>/classes for the encoded module e
SourceOf(e) ==
    PathJoin(PathJoin(PathJoin(IF e.libpath = <<>> THEN config.path ELSE e.libpath,
                               e.name), e.version), CLASSES)

\* The handle h is a module of the loaded configuration
CurrentModule(h) == h # NULLM /\ h[1] = config.id

\* C15: with a configuration loaded, JDK_GetModuleInfo on a module of it
\* whose container a lookup opened, as it did for every handle that
\* JDK_FindLocalClass returned, succeeds and reports the module's name,
\* version and library-path override and the source
\* <effective-library-path>/<name>/<version>/classes; on NULL and on a handle
\* whose context is not a context of the loaded configuration it fails with
\* the invalid-module error.
C15_ModuleInfoOfFoundModule ==
    (ret.op = "info" /\ config.id # 0) =>
        IF ~CurrentModule(ret.module)
        THEN ret.rc = JIGSAW_ERROR_INVALID_MODULE
        ELSE Module(config, ret.module[2], ret.module[3]).zfile # 0 =>
               /\ ret.rc = 0
               /\ ret.out.module_name = Encoded(ret.module).name
               /\ ret.out.module_version = Encoded(ret.module).version
               /\ ret.out.libpath = Encoded(ret.module).libpath
               /\ ret.out.source = SourceOf(Encoded(ret.module))

\* The module m2, with the library path /p, found in a context that is not
\* the base context, is asked for
C15_Witness ==
    /\ ret.op = "info" /\ ret.rc = 0
    /\ CurrentModule(ret.module)
    /\ ret.module[2] # config.base
    /\ Module(config, ret.module[2], ret.module[3]).zfile # 0
    /\ ret.out.module_name = M2
    /\ ret.out.source = PathJoin(PathJoin(PathJoin(LIBP, M2), V1), CLASSES)

\* A module of the configuration loaded first is asked for after the second
\* load
C15_StaleWitness ==
    /\ ret.op = "info" /\ ret.rc = JIGSAW_ERROR_INVALID_MODULE
    /\ config.id = 2 /\ ret.module # NULLM /\ ret.module[1] = 1

-----------------------------------------------------------------------------
(* SpecIndex: a chain of one or two libraries whose module-id indexes have *)
(* several entries of one name, in any order of their versions; a          *)
(* configuration is loaded from /a for a query with or without a version.  *)

\* Dictionaries: empty; C@1 before C@2; C@2 before C@1; the same around an
\* alias and another module; A alone
IndexDicts ==
    { <<>>,
      <<Provides(ModC, V1), Provides(ModC, V2)>>,
      <<Provides(ModC, V2), Provides(ModC, V1)>>,
      <<Provides(ModC, V2), DictEntry(ModB, V1, ModC, V2), Provides(ModC, V1),
        Provides(ModA, V1)>>,
      <<Provides(ModA, V1)>> }

\* The queries "C", "C@1", "C@2" and "B"
IndexQueries ==
    { [q |-> ModC, name |-> ModC],
      [q |-> ModuleIdString(ModC, V1), name |-> ModC],
      [q |-> ModuleIdString(ModC, V2), name |-> ModC],
      [q |-> ModB, name |-> ModB] }

InitIndex ==
    \E k \in 1..2 : \E ds \in [1..k -> IndexDicts] :
        /\ src = [cfg |-> BaseConfig, flip |-> NoFlip, holders |-> {},
                  libs |-> [n \in 1..k |-> ChainLibrary(n, k, ds[n])]]
        /\ zips = <<>>
        /\ config = NoConfig
        /\ nalloc = 0
        /\ ret = NoRet
        /\ pc = "run"
        /\ calls = NoCalls

LoadIndex ==
    \E x \in IndexQueries : nalloc < MaxLoads /\ JDK_LoadContexts(LibPath(1), x.q)

NextIndex == LoadIndex

SpecIndex == InitIndex /\ [][NextIndex]_vars

\* The module name the query q asks for
IndexName(q) == (CHOOSE x \in IndexQueries : x.q = q).name

\* <library-root>/<name>/<version> of the entry e of library n
DirectoryOf(n, e) == PathJoin(PathJoin(LibPath(n), e.name), e.version)

-----------------------------------------------------------------------------
(* SpecSplit: the configuration of jdk.classpath@1 holds one context of    *)
(* one or two modules whose module-id strings have no '@', one '@', a      *)
(* leading '@', a trailing '@' or several '@'; it is loaded in classpath   *)
(* mode.                                                                   *)

\* "m1", "m1@1", "@1", "m1@1@2", "m1@", "m1@@1"
SplitIds ==
    { M1,
      M1 \o <<AT>> \o V1,
      <<AT>> \o V1,
      M1 \o <<AT>> \o V1 \o <<AT>> \o V2,
      M1 \o <<AT>>,
      M1 \o <<AT, AT>> \o V1 }

\* MaxSplitModules: the most modules of the context
MaxSplitModules == 2

\* The module-id string is written as it is: Mod(id, NoVersion, "")
SplitConfigs ==
    { [d1 |-> d1, d2 |-> 0,
       contexts |-> << [name |-> ContextName(1),
                        modules |-> [i \in 1..Len(ids) |->
                                       Mod(ids[i], NoVersion, <<>>)]] >>] :
      <<d1, ids>> \in (0..MaxDiscard)
                        \X (SeqsUpTo(SplitIds, MaxSplitModules) \ {<<>>}) }

InitSplit == \E c \in SplitConfigs : ParseWorld(c, NoFlip)

NextSplit == LoadClasspath

SpecSplit == InitSplit /\ [][NextSplit]_vars

\* The position of the first '@' of id, Len(id) + 1 when it has none
RECURSIVE FirstAt(_, _)
FirstAt(id, i) ==
    IF i > Len(id) \/ id[i] = AT THEN i ELSE FirstAt(id, i + 1)

\* The name and the version the first '@' of id separates
SplitAtFirst(id) ==
    [name    |-> SubSeq(id, 1, FirstAt(id, 1) - 1),
     version |-> IF FirstAt(id, 1) > Len(id) THEN NULL
                 ELSE SubSeq(id, FirstAt(id, 1) + 1, Len(id))]

\* C17: every module of a loaded configuration has for name what precedes
\* the first '@' of its module-id string and for version all that follows
\* that '@' (no version when the id has no '@'), which is the split
\* parse_module_id makes of an id that has an '@'.
C17_ConfigIdSplitAtFirstAt ==
    (ret.op = "load" /\ config.id # 0 /\ config.cxcount = 1) =>
        \A i \in 1..Len(src.cfg.contexts[1].modules) :
            LET id == src.cfg.contexts[1].modules[i].name
                m  == config.contexts[1].modules[i]
            IN  /\ m.module_name = SplitAtFirst(id).name
                /\ m.module_version = SplitAtFirst(id).version
                /\ FirstAt(id, 1) <= Len(id) =>
                     /\ m.module_name = parse_module_id(id).name
                     /\ m.module_version = parse_module_id(id).version

\* ZipOpen was called on module i (C index) of context cx and failed
OpenFailed(cx, i) ==
    Module(config, cx, i).nopen > 0 /\ Module(config, cx, i).zfile = 0

\* C18: a module whose container does not open counts as a module without
\* the class and no more: a lookup in the base context returns the first
\* module in the search order whose container holds the class, whatever
\* containers are missing before it, and fails with class-not-found, not
\* with another error, when no module holds it.
C18_OpenFailureIsClassNotFound ==
    (/\ ret.op = "find" /\ pc = "run"
     /\ config.id # 0 /\ config.base # 0
     /\ ret.cx \in {NULLH, ContextHandle(config.id, config.base)}) =>
        IF FirstHolder(config.base) # -1
        THEN /\ ret.rc = 0
             /\ ret.module[2] = config.base
             /\ ret.module[3] = FirstHolder(config.base)
        ELSE ret.rc = JIGSAW_ERROR_CLASS_NOT_FOUND

\* A lookup called find_class_entry on a module whose container did not open
\* and returned a module visited after it
C18_Witness ==
    /\ ret.op = "find" /\ ret.rc = 0
    /\ config.id = ret.module[1]
    /\ \E k \in 1..Len(ret.trace) :
           /\ ret.trace[k][1] = "entry"
           /\ ret.trace[k][3] # ret.module[3]
           /\ OpenFailed(ret.trace[k][2], ret.trace[k][3])

-----------------------------------------------------------------------------
(* SpecOpen: a chain of one to MaxChain libraries /a, /b, ... in which the *)
(* %jigsaw-library file of any library may be missing or have one header   *)
(* field changed; /a declares jdk.classpath@1; a configuration is loaded   *)
(* from /a.                                                                *)

OpenHeaders == {NoFlip, MissingHeader} \cup HeaderFlips(LIBRARY_HEADER)

OpenLibrary(n, k, header) ==
    [path |-> LibPath(n), parent |-> IF n < k THEN LibPath(n + 1) ELSE NULL,
     dict |-> IF n = 1 THEN <<SelfEntry(JDK_CLASSPATH, V1)>> ELSE <<>>,
     modules |-> IF n = 1 THEN <<Installed(JDK_CLASSPATH, V1, BaseConfig)>> ELSE <<>>,
     header |-> header]

InitOpen ==
    \E k \in 1..MaxChain : \E hs \in [1..k -> OpenHeaders] :
        /\ src = [cfg |-> BaseConfig, flip |-> NoFlip, holders |-> {},
                  libs |-> [n \in 1..k |-> OpenLibrary(n, k, hs[n])]]
        /\ zips = <<>>
        /\ config = NoConfig
        /\ nalloc = 0
        /\ ret = NoRet
        /\ pc = "run"
        /\ calls = NoCalls

LoadOpen == \E q \in {NULL, M1} : nalloc < MaxLoads /\ JDK_LoadContexts(LibPath(1), q)

NextOpen == LoadOpen

SpecOpen == InitOpen /\ [][NextOpen]_vars

\* The libraries of the chain whose header file is missing or changed
BadHeaders == {n \in 1..Len(src.libs) : src.libs[n].header # NoFlip}

\* The first of them is an ancestor of /a
AncestorFails == BadHeaders # {} /\ \A n \in BadHeaders : n > 1

FirstBadHeader == CHOOSE n \in BadHeaders : \A j \in BadHeaders : n <= j

\* How many times the event e is in the trace
Times(trace, e) == Cardinality({k \in 1..Len(trace) : trace[k] = e})

\* The load fails with the error of the first ancestor that does not open
\* and no configuration is loaded
C19_AncestorErrorReturned ==
    (ret.op = "load" /\ AncestorFails) =>
        /\ ret.rc = IF src.libs[FirstBadHeader].header = MissingHeader
                    THEN JIGSAW_ERROR_MODULE_LIBRARY_NOT_FOUND
                    ELSE JIGSAW_ERROR_INVALID_MODULE_LIBRARY
        /\ config = NoConfig

\* C19: when an ancestor of the library does not open (its header file is
\* missing or has a field changed) the load fails with the error of that
\* ancestor, nothing is loaded, every library node allocated on the way is
\* freed exactly once, and nothing is read that was not written before: the
\* call returns.
C19_AncestorFailureReleasesChain ==
    (ret.op = "load" /\ AncestorFails) =>
        /\ ret.rc = IF src.libs[FirstBadHeader].header = MissingHeader
                    THEN JIGSAW_ERROR_MODULE_LIBRARY_NOT_FOUND
                    ELSE JIGSAW_ERROR_INVALID_MODULE_LIBRARY
        /\ config = NoConfig
        /\ \A k \in 1..Len(ret.trace) :
               /\ ret.trace[k][1] = "malloc" =>
                    Times(ret.trace, NodeEvent("free", ret.trace[k][2], ret.trace[k][3])) = 1
               /\ ret.trace[k][1] # "use"
        /\ pc = "run"

-----------------------------------------------------------------------------
(* SpecShort: the configuration of jdk.classpath@1 has one context with    *)
(* jdk.base and one more module; the file has up to MaxCut bytes cut off   *)
(* its end, which leaves its header whole; it is loaded in classpath mode. *)

MaxCut == 26

Cut(k) == [field |-> 5, value |-> k]

ShortConfigs ==
    { [d1 |-> d1, d2 |-> d2,
       contexts |-> << [name |-> ContextName(1),
                        modules |-> <<ModuleOf(JDK_BASE), m>>] >>] :
      <<d1, d2, m>> \in (0..MaxDiscard) \X (0..MaxDiscard) \X ParseModules }

InitShort ==
    \E c \in ShortConfigs, k \in 0..MaxCut :
        ParseWorld(c, IF k = 0 THEN NoFlip ELSE Cut(k))

NextShort == LoadClasspath

SpecShort == InitShort /\ [][NextShort]_vars

\* C20: loading a configuration file that ends before a field or a string
\* is complete reports an error to the caller: the call returns, and with a
\* return code that is not 0.
C20_ShortReadIsAnError ==
    (ret.op = "load" /\ src.flip.field = 5) => (pc = "run" /\ ret.rc # 0)

\* The call returned 0 for a file that was cut
C20_SilentSuccess ==
    ret.op = "load" /\ src.flip.field = 5 /\ pc = "run" /\ ret.rc = 0

-----------------------------------------------------------------------------
(* The resources of find_declaring_module_dir, on SpecChain                *)

\* C21: when JDK_LoadContexts has returned, every call of
\* find_declaring_module_dir it made has closed the descriptor of the index
\* it opened and has freed the dictionary array and the strings it
\* allocated.
C21_DictionaryReleased ==
    (ret.op = "load" /\ pc = "run") =>
        \A k \in 1..Len(ret.trace) :
            /\ ret.trace[k][1] = "open" =>
                 Times(ret.trace, IndexEvent("close", ret.trace[k][2], 0))
                   = Times(ret.trace, IndexEvent("open", ret.trace[k][2], 0))
            /\ ret.trace[k][1] = "malloc" =>
                 Times(ret.trace, IndexEvent("free", ret.trace[k][2], ret.trace[k][3]))
                   = Times(ret.trace, ret.trace[k])

\* The descriptors are closed: as many close as open for every index
C21_DescriptorsClosed ==
    (ret.op = "load" /\ pc = "run") =>
        \A k \in 1..Len(ret.trace) :
            ret.trace[k][1] = "open" =>
                Times(ret.trace, IndexEvent("close", ret.trace[k][2], 0))
                  = Times(ret.trace, IndexEvent("open", ret.trace[k][2], 0))

-----------------------------------------------------------------------------
(* SpecMids: a chain of one or two libraries /a, /b, each with an index    *)
(* that declares C@1 or nothing, and whose %mids file may be missing or    *)
(* have one header field changed; a configuration is loaded from /a for    *)
(* the query "C" or "A".                                                   *)

MaxMidsChain == 2

MidsIndexes == {NoFlip, MissingHeader} \cup HeaderFlips(LIBRARY_MODULE_IDS)

MidsDicts == {<<>>, <<Provides(ModC, V1)>>}

MidsLibrary(n, k, entries, index) ==
    ("index" :> index) @@ ChainLibrary(n, k, entries)

InitMids ==
    \E k \in 1..MaxMidsChain :
        \E ds \in [1..k -> MidsDicts], xs \in [1..k -> MidsIndexes] :
            /\ src = [cfg |-> BaseConfig, flip |-> NoFlip, holders |-> {},
                      libs |-> [n \in 1..k |-> MidsLibrary(n, k, ds[n], xs[n])]]
            /\ zips = <<>>
            /\ config = NoConfig
            /\ nalloc = 0
            /\ ret = NoRet
            /\ pc = "run"
            /\ calls = NoCalls

LoadMids ==
    \E q \in {ModC, ModA} : nalloc < MaxLoads /\ JDK_LoadContexts(LibPath(1), q)

NextMids == LoadMids

SpecMids == InitMids /\ [][NextMids]_vars

\* Library n has an index that opens, with the right header
GoodIndex(n) == src.libs[n].index = NoFlip

\* Library n declares the module named name in an index that can be read
DeclaresIn(n, name) ==
    GoodIndex(n) /\ \E i \in 1..Len(src.libs[n].entries) :
                        src.libs[n].entries[i].name = name

\* The walk of the chain for the module named name comes to a library whose
\* index does not open or has a header that does not match
BadIndexReached(name) ==
    \E n \in 1..Len(src.libs) :
        /\ ~GoodIndex(n)
        /\ \A m \in 1..(n - 1) : GoodIndex(m) /\ ~DeclaresIn(m, name)

\* C22: when the walk of the chain comes to a library whose module-id index
\* cannot be opened or has a mismatching header, JDK_LoadContexts fails with
\* the error of that index (invalid module ids or malformed header): not
\* with module-not-found, and not with the result of a library further up.
C22_IndexFailureIsTypedError ==
    (ret.op = "load" /\ BadIndexReached(ret.q)) =>
        ret.rc \in {JIGSAW_ERROR_INVALID_MODULE_IDS, JIGSAW_ERROR_BAD_FILE_HEADER}

\* The index of /a does not open, /b declares C: the load succeeds with the
\* configuration of /b
C22_WalkContinues ==
    /\ ret.op = "load" /\ ret.rc = 0 /\ ret.q = ModC
    /\ BadIndexReached(ModC)
    /\ config.path = LibPath(2)

-----------------------------------------------------------------------------
(* SpecLive: the world of SpecInfo; the configuration is loaded up to      *)
(* MaxReloads times, and classes are looked up and read with any handle    *)
(* the caller got from any of the loads.                                   *)

\* the context handles a caller may hold: NULL and the address of any
\* context of any configuration allocated so far
HeldContexts ==
    {NULLH} \cup {ContextHandle(id, n) : id \in 1..nalloc,
                                        n \in 1..Len(src.cfg.contexts)}

FindHeld == \E h \in HeldContexts : FewOpens /\ JDK_FindLocalClass(h, CLASSNAME)

NextLive == Reload \/ FindHeld \/ ReadAny

SpecLive == InitInfo /\ [][NextLive]_vars

\* C23: after loads that all succeeded the configuration is the one loaded
\* last; a lookup returns modules of that configuration only; a context
\* handle of an earlier configuration is rejected with the invalid-context
\* error without a search, and a module handle of an earlier configuration
\* with the invalid-module error without a read.
C23_OnlyLastConfigurationLive ==
    (config.id # 0 /\ config.base # 0) =>
        /\ config.id = nalloc
        /\ (ret.op = "find" /\ ret.rc = 0) => ret.module[1] = config.id
        /\ (ret.op = "find" /\ ret.cx # NULLH /\ ret.cx[1] # config.id) =>
               /\ ret.rc = JIGSAW_ERROR_INVALID_CONTEXT
               /\ ret.trace = <<>>
        /\ (ret.op = "read" /\ ret.module # NULLM /\ ret.module[1] # config.id) =>
               /\ ret.rc = JIGSAW_ERROR_INVALID_MODULE
               /\ ret.out = UNSET

\* The base context of the first configuration is looked up after the
\* second load
C23_Witness ==
    /\ config.id = 2 /\ config.base # 0
    /\ ret.op = "find" /\ ret.cx = ContextHandle(1, config.base)
    /\ ret.rc = JIGSAW_ERROR_INVALID_CONTEXT

\* A module of the first configuration is read after the second load
C23_StaleModuleWitness ==
    /\ config.id = 2 /\ config.base # 0
    /\ ret.op = "read" /\ ret.module # NULLM /\ ret.module[1] = 1
    /\ ret.rc = JIGSAW_ERROR_INVALID_MODULE

-----------------------------------------------------------------------------
(* SpecRace: MaxThreads threads call find_class_entry (through             *)
(* JDK_ReadLocalClass) on modules of the loaded configuration, each call   *)
(* in the steps the code makes: the test of m->zfile (jigsaw.c:619), the   *)
(* open and the store of the handle (jigsaw.c:629-631), the lookup in the  *)
(* container (jigsaw.c:638).  The code takes no lock.  calls.serial says   *)
(* that the callers serialize the calls: a call starts only when no other  *)
(* is under way.                                                           *)

MaxThreads == 2

Idle == [at |-> "idle", cx |-> 0, i |-> 0, seen |-> 0]

AllIdle == \A t \in 1..MaxThreads : calls.t[t] = Idle

RaceConfigs == {c \in ReadConfigs : Len(c.contexts) = 1}

InitRace ==
    \E c \in RaceConfigs, present \in SUBSET ReadModuleNames, serial \in BOOLEAN :
        /\ src = [cfg |-> c, flip |-> NoFlip, holders |-> present,
                  libs |-> <<Library(LIBA, NULL, <<SelfEntry(JDK_CLASSPATH, V1)>>,
                                     <<Installed(JDK_CLASSPATH, V1, c)>>)>>]
        /\ zips = Containers(present, present)
        /\ config = NoConfig
        /\ nalloc = 0
        /\ ret = NoRet
        /\ pc = "run"
        /\ calls = [serial |-> serial, t |-> [t \in 1..MaxThreads |-> Idle]]

\* A test that never sees a cached handle
Observe_Empty(c, cx, i) == 0

\* if (m->zfile == NULL): the value of m->zfile the thread reads
Observe(c, cx, i) == Module(c, cx, i).zfile

\* The path of the container of module i of context cx (jigsaw.c:624-629)
SourcePath(c, cx, i) ==
    PathJoin(PathJoin(PathJoin(IF Module(c, cx, i).libpath = <<>> THEN c.path
                               ELSE Module(c, cx, i).libpath,
                               Module(c, cx, i).module_name),
                      Module(c, cx, i).module_version), CLASSES)

\* No call is under way: the configuration is loaded
LoadIdle == AllIdle /\ nalloc < 1 /\ JDK_LoadContexts(LIBA, NULL)

\* Thread t enters find_class_entry on module i of context cx and tests
\* m->zfile
find_class_entry_test(t, cx, i) ==
    /\ pc = "run" /\ config.id # 0
    /\ calls.t[t] = Idle
    /\ calls.serial => AllIdle
    /\ Module(config, cx, i).nopen < MaxOpens
    /\ \E seen \in {Observe(config, cx, i)} :
           calls' = [calls EXCEPT !.t[t] = [at |-> IF seen = 0 THEN "open" ELSE "find",
                                            cx |-> cx, i |-> i, seen |-> seen]]
    /\ UNCHANGED <<src, zips, config, nalloc, ret, pc>>

\* Thread t, which saw NULL, sets m->source, opens the container and stores
\* what ZipOpen returned in m->zfile; it returns when that is NULL
find_class_entry_open(t) ==
    /\ pc = "run"
    /\ calls.t[t].at = "open"
    /\ \E cx \in {calls.t[t].cx}, i \in {calls.t[t].i} :
         \E opens \in {ZipOpens(zips, SourcePath(config, cx, i))} :
           /\ config' = [config EXCEPT
                  !.contexts[cx].modules[i + 1].source = SourcePath(config, cx, i),
                  !.contexts[cx].modules[i + 1].nopen = @ + 1,
                  !.contexts[cx].modules[i + 1].zfile =
                      IF opens THEN Module(config, cx, i).nopen + 1 ELSE 0]
           /\ calls' = [calls EXCEPT !.t[t] = IF opens THEN [@ EXCEPT !.at = "find"]
                                               ELSE Idle]
    /\ UNCHANGED <<src, zips, nalloc, ret, pc>>

\* Thread t looks the entry up in the container m->zfile and returns
find_class_entry_find(t) ==
    /\ pc = "run"
    /\ calls.t[t].at = "find"
    /\ calls' = [calls EXCEPT !.t[t] = Idle]
    /\ UNCHANGED <<src, zips, config, nalloc, ret, pc>>

TestAny ==
    \E t \in 1..MaxThreads, cx \in 1..Len(src.cfg.contexts) :
        \E i \in 0..(Len(src.cfg.contexts[cx].modules) - 1) :
            find_class_entry_test(t, cx, i)

OpenAny == \E t \in 1..MaxThreads : find_class_entry_open(t)

FindEntryAny == \E t \in 1..MaxThreads : find_class_entry_find(t)

NextRace == LoadIdle \/ TestAny \/ OpenAny \/ FindEntryAny

SpecRace == InitRace /\ [][NextRace]_vars

\* ZipOpen was called on module i of context cx and its container exists:
\* each of the nopen calls returned a handle of its own
Opened(cx, i) ==
    /\ Module(config, cx, i).nopen > 0
    /\ ZipOpens(zips, Module(config, cx, i).source)

\* C24: the handle a module has cached is the one the last open returned,
\* every handle opened before it is overwritten; and when the calls are
\* serialized no container that opens is opened more than once.
C24_SerializedOpensOnce ==
    config.id # 0 =>
        \A cx \in 1..config.cxcount : \A i \in 0..(config.contexts[cx].mcount - 1) :
            Opened(cx, i) =>
                /\ Module(config, cx, i).zfile = Module(config, cx, i).nopen
                /\ calls.serial => Module(config, cx, i).nopen = 1

\* Two threads that are not serialized both saw NULL in m->zfile of the same
\* module and both opened its container: the module has the second handle,
\* the first is lost
C24_Witness ==
    /\ config.id # 0 /\ ~calls.serial
    /\ calls.t[1].at = "find" /\ calls.t[2].at = "find"
    /\ calls.t[1].seen = 0 /\ calls.t[2].seen = 0
    /\ calls.t[1].cx = calls.t[2].cx /\ calls.t[1].i = calls.t[2].i
    /\ Opened(calls.t[1].cx, calls.t[1].i)
    /\ Module(config, calls.t[1].cx, calls.t[1].i).nopen = 2
    /\ Module(config, calls.t[1].cx, calls.t[1].i).zfile = 2

-----------------------------------------------------------------------------
(* SpecHalf: one library /a that declares jdk.classpath@1 only; its        *)
(* configuration has one context, with or without jdk.base, and its file   *)
(* may have one header field changed.  A configuration is loaded, in       *)
(* classpath mode or for the query "m1", which no library declares; then   *)
(* classes are looked up and read and modules are asked for.               *)

HalfConfigs == {c \in ReadConfigs : Len(c.contexts) = 1}

InitHalf ==
    \E c \in HalfConfigs,
       flip \in {NoFlip} \cup HeaderFlips(LIBRARY_MODULE_CONFIG),
       holders \in {{}, ReadModuleNames} :
        /\ src = [cfg |-> c, flip |-> flip, holders |-> holders,
                  libs |-> <<Library(LIBA, NULL, <<SelfEntry(JDK_CLASSPATH, V1)>>,
                                     <<Installed(JDK_CLASSPATH, V1, c)>>)>>]
        /\ zips = Containers(ReadModuleNames, holders)
        /\ config = NoConfig
        /\ nalloc = 0
        /\ ret = NoRet
        /\ pc = "run"
        /\ calls = NoCalls

LoadHalf ==
    \E q \in {NULL, M1} : nalloc < MaxReloads /\ JDK_LoadContexts(LIBA, q)

NextHalf == LoadHalf \/ FindAny \/ ReadAny \/ InfoAny

SpecHalf == InitHalf /\ [][NextHalf]_vars

\* The global config is set and its context list or its base context is not
HalfLoaded == config.id # 0 /\ (config.cxcount = UNSETI \/ config.base \in {0, UNSETI})

\* C25: the global config is never non-null with its context list unset or
\* its base context null; and a lookup, a read or a module information call
\* that follows a JDK_LoadContexts that failed returns, with an error.
C25_NoHalfLoadedConfiguration ==
    /\ ~HalfLoaded
    /\ (ret.op \in {"find", "read", "info"} /\ (config.id = 0 \/ HalfLoaded)) =>
           (pc = "run" /\ ret.rc # 0)

\* A class is looked up with the NULL context after a load that found no
\* base module: find_class reads the module count of the NULL context
C25_NullBaseSearched ==
    /\ ret.op = "find" /\ ret.cx = NULLH /\ pc = "crashed"
    /\ config.id # 0 /\ config.base = 0

\* A class is read from a module of a configuration that has no base context
C25_HalfLoadedRead ==
    /\ ret.op = "read" /\ ret.rc = 0 /\ pc = "run"
    /\ config.id # 0 /\ config.base = 0

-----------------------------------------------------------------------------
(* SpecLen: the library of SpecRead with a configuration of one context;   *)
(* classes are read into buffers of every length up to one byte more than  *)
(* the class entry.                                                        *)

BufferLengths == 0..(ClassSize + 1)

InitLen ==
    \E c \in HalfConfigs, present \in SUBSET ReadModuleNames :
        ReadWorld(c, present, present)

ReadLen ==
    \E m \in ModuleHandles, len \in BufferLengths :
        FewOpens /\ JDK_ReadLocalClass(m, CLASSNAME, len)

NextLen == Reload \/ ReadLen

SpecLen == InitLen /\ [][NextLen]_vars

\* C26: a read that returns wrote at most len bytes into buf, and a read of
\* an entry larger than len is an error that returns to the caller.
C26_ReadWithinBuffer ==
    ret.op = "read" =>
        /\ pc = "run"
        /\ ret.rc = 0 => Len(ret.out) <= ret.len

\* An entry of ClassSize bytes is read into a buffer it fits in
C26_FittingRead ==
    ret.op = "read" /\ ret.rc = 0 /\ Len(ret.out) = ClassSize /\ ret.len >= ClassSize

-----------------------------------------------------------------------------
(* SpecAlias: chains of one or two libraries whose indexes hold aliases    *)
(* that end in a module (A -> B -> B), that name an id no entry has        *)
(* (A -> B), that form a cycle (A -> B -> A) and that lead into a cycle    *)
(* (C -> A -> B -> A).                                                     *)

MaxAliasChain == 2

AliasDicts ==
    { <<DictEntry(ModA, V1, ModB, V1), Provides(ModB, V1)>>,
      <<DictEntry(ModA, V1, ModB, V1)>>,
      <<DictEntry(ModA, V1, ModB, V1), DictEntry(ModB, V1, ModA, V1)>>,
      <<DictEntry(ModC, V1, ModA, V1), DictEntry(ModA, V1, ModB, V1),
        DictEntry(ModB, V1, ModA, V1)>>,
      <<Provides(ModC, V1)>> }

InitAlias ==
    \E k \in 1..MaxAliasChain : \E ds \in [1..k -> AliasDicts] :
        /\ src = [cfg |-> BaseConfig, flip |-> NoFlip, holders |-> {},
                  libs |-> [n \in 1..k |-> ChainLibrary(n, k, ds[n])]]
        /\ zips = <<>>
        /\ config = NoConfig
        /\ nalloc = 0
        /\ ret = NoRet
        /\ pc = "run"
        /\ calls = NoCalls

LoadAlias ==
    \E q \in {ModA, ModB, ModC} :
        nalloc < MaxLoads /\ JDK_LoadContexts(LibPath(1), q)

NextAlias == LoadAlias

SpecAlias == InitAlias /\ [][NextAlias]_vars

\* C27: find_declaring_module_dir returns for every dictionary: a load never
\* stays in the alias chase.
C27_AliasChaseTerminates == ret.op = "load" => pc = "run"

\* The chase of a well-formed alias ends: "A" is found through A -> B -> B
C27_AliasResolved ==
    /\ ret.op = "load" /\ ret.q = ModA /\ ret.rc = 0 /\ pc = "run"
    /\ src.libs[1].entries = <<DictEntry(ModA, V1, ModB, V1), Provides(ModB, V1)>>

\* The load that chases the alias of an id no entry has never returns
C27_DanglingAliasHangs ==
    /\ pc = "hung"
    /\ src.libs[1].entries = <<DictEntry(ModA, V1, ModB, V1)>>

-----------------------------------------------------------------------------
(* SpecWalk: the library /a with a configuration of one or two contexts of *)
(* zero to MaxWalkModules modules each, drawn from jdk.base, jdk.classpath *)
(* and m1 in every order and with repetitions, jdk.base among them; the    *)
(* containers of jdk.base and m1 hold the class or not.  The configuration *)
(* is loaded in classpath mode, its bootstrap contexts are marked and      *)
(* classes are looked up.                                                  *)

MaxWalkContexts == 2

MaxWalkModules == 2

WalkNames == {JDK_BASE, JDK_CLASSPATH, M1}

WalkConfigs ==
    UNION { { [d1 |-> 0, d2 |-> 0,
               contexts |-> [n \in 1..ncx |->
                               [name |-> ContextName(n),
                                modules |-> [i \in 1..Len(mss[n]) |->
                                               ModuleOf(mss[n][i])]]]] :
              mss \in {x \in [1..ncx -> SeqsUpTo(WalkNames, MaxWalkModules)] :
                         \E n \in 1..ncx : \E i \in 1..Len(x[n]) :
                             x[n][i] = JDK_BASE} } :
            ncx \in 1..MaxWalkContexts }

InitWalk ==
    \E c \in WalkConfigs, holders \in SUBSET {JDK_BASE, M1} :
        /\ src = [cfg |-> c, flip |-> NoFlip, holders |-> holders,
                  libs |-> <<Library(LIBA, NULL, <<SelfEntry(JDK_CLASSPATH, V1)>>,
                                     <<Installed(JDK_CLASSPATH, V1, c)>>)>>]
        /\ zips = Containers({JDK_BASE, M1}, holders)
        /\ config = NoConfig
        /\ nalloc = 0
        /\ ret = NoRet
        /\ pc = "run"
        /\ calls = NoCalls

LoadWalk == nalloc < MaxLoads /\ JDK_LoadContexts(LIBA, NULL)

BootWalk == \E names \in {<<>>, <<M1>>} : init_bootstrap_contexts(names)

\* the handles passed: NULL and the address of any context allocated so far
FindWalk ==
    \E h \in {NULLH} \cup {ContextHandle(id, n) : id \in 1..nalloc,
                                                 n \in 1..MaxWalkContexts} :
        JDK_FindLocalClass(h, CLASSNAME)

NextWalk == LoadWalk \/ BootWalk \/ FindWalk

SpecWalk == InitWalk /\ [][NextWalk]_vars

\* The events of a trace at which a module entry was read
EntryReads(trace) == {k \in 1..Len(trace) : trace[k][1] \in {"name", "entry"}}

\* C28: every module entry find_class reads, to compare its name or to look
\* up its container, is at an index i with 0 <= i < mcount of the context
\* searched, and the lookup returns to its caller.
C28_ReadsWithinModuleArray ==
    ret.op = "find" =>
        /\ pc = "run"
        /\ \A k \in EntryReads(ret.trace) :
               /\ 0 <= ret.trace[k][3]
               /\ ret.trace[k][3] < config.contexts[ret.trace[k][2]].mcount

\* A lookup skipped a jdk.classpath module that is the last of its context:
\* the index went to mcount and no entry was read there
C28_Witness ==
    /\ ret.op = "find" /\ pc = "run"
    /\ \E k \in EntryReads(ret.trace) :
           Let(config.contexts[ret.trace[k][2]], LAMBDA cx :
               /\ ret.trace[k] = Event("name", ret.trace[k][2], cx.mcount - 1)
               /\ cx.modules[cx.mcount].module_name = JDK_CLASSPATH)

\* A lookup searched a context that has no module
C28_EmptyContextSearched ==
    /\ ret.op = "find" /\ pc = "run"
    /\ \E k \in 1..Len(ret.trace) :
           /\ ret.trace[k][1] = "find_class"
           /\ config.contexts[ret.trace[k][2]].mcount = 0

\* A lookup stepped over the base module when it is the last of its context
C28_BaseSkippedAtEnd ==
    /\ ret.op = "find" /\ pc = "run" /\ ret.rc # 0 /\ config.id # 0
    /\ config.base_module = config.contexts[config.base].mcount
    /\ config.base_module > 1
    /\ Event("entry", config.base, config.base_module - 2) \in
           {ret.trace[k] : k \in 1..Len(ret.trace)}

====
